---- MODULE Spec2Model ----
(***************************************************************************)
(* Model of the Surfguru forecast API lambdas: the forecast decoder and    *)
(* assembler (forecast/parser), the /forecast handler (forecast/legacy.py) *)
(* and the cached database connection (common/db.py).                      *)
(*                                                                         *)
(* Strings are sequences of one-character strings, so that splitting,      *)
(* int() and float() are computed from the characters.  Python lists are   *)
(* 0-based; sequences here are 1-based, so list[i] is seq[i + 1].          *)
(***************************************************************************)
EXTENDS Integers, Sequences, FiniteSets, TLC

(***************************************************************************)
(* Python values whose type matters to the code (int / str / None).        *)
(***************************************************************************)
PyNone == [t |-> "None", i |-> 0, s |-> <<>>]
PyInt(n) == [t |-> "int", i |-> n, s |-> <<>>]
PyStr(chars) == [t |-> "str", i |-> 0, s |-> chars]

\* The result of a call that may raise: exc = "" when it returned val.
Ret(v) == [exc |-> "", val |-> v]
Raise(kind) == [exc |-> kind, val |-> 0]

Digits == <<"0", "1", "2", "3", "4", "5", "6", "7", "8", "9">>
IsDigit(c) == \E k \in 1..10 : Digits[k] = c
DigitVal(c) == CHOOSE k \in 0..9 : Digits[k + 1] = c
AllDigits(s) == Len(s) > 0 /\ \A k \in 1..Len(s) : IsDigit(s[k])

RECURSIVE NatOf(_)
NatOf(s) == IF s = <<>> THEN 0
            ELSE 10 * NatOf(SubSeq(s, 1, Len(s) - 1)) + DigitVal(s[Len(s)])

RECURSIVE NatStr(_)
NatStr(n) == IF n < 10 THEN <<Digits[n + 1]>>
             ELSE NatStr(n \div 10) \o <<Digits[(n % 10) + 1]>>

\* str(n) of a Python int
IntStr(n) == IF n < 0 THEN <<"-">> \o NatStr(-n) ELSE NatStr(n)

\* str(n).zfill(w)
RECURSIVE zfill(_, _)
zfill(s, w) == IF Len(s) >= w THEN s ELSE zfill(<<"0">> \o s, w)

\* The texts int() accepts: an optional sign and at least one digit.
IsIntText(s) ==
    \/ AllDigits(s)
    \/ Len(s) > 1 /\ s[1] \in {"-", "+"} /\ AllDigits(Tail(s))

IntOfText(s) == IF s[1] = "-" THEN -NatOf(Tail(s))
                ELSE IF s[1] = "+" THEN NatOf(Tail(s))
                ELSE NatOf(s)

\* int(x): a str that is no integer text raises ValueError, None TypeError.
py_int(x) ==
    IF x.t = "int" THEN Ret(x.i)
    ELSE IF x.t = "None" THEN Raise("TypeError")
    ELSE IF IsIntText(x.s) THEN Ret(IntOfText(x.s))
    ELSE Raise("ValueError")

\* Decimal texts with one fractional digit ("1.5"), which float() accepts
\* and int() does not.
IsDecimalText(s) ==
    /\ Len(s) >= 3
    /\ s[Len(s) - 1] = "."
    /\ IsDigit(s[Len(s)])
    /\ IsIntText(SubSeq(s, 1, Len(s) - 2))

IsNonFiniteText(s) == s \in {<<"n", "a", "n">>, <<"i", "n", "f">>}

\* float(x).  A finite float is kept exactly, in tenths; nan and inf are
\* kept as "not finite" (every use below maps both to nan).
py_float(x) ==
    IF x.t = "int" THEN Ret([finite |-> TRUE, tenths |-> 10 * x.i])
    ELSE IF x.t = "None" THEN Raise("TypeError")
    ELSE IF IsIntText(x.s)
        THEN Ret([finite |-> TRUE, tenths |-> 10 * IntOfText(x.s)])
    ELSE IF IsDecimalText(x.s)
        THEN LET whole == SubSeq(x.s, 1, Len(x.s) - 2)
                 frac == DigitVal(x.s[Len(x.s)])
             IN Ret([finite |-> TRUE,
                     tenths |-> IF whole[1] = "-"
                                THEN 10 * IntOfText(whole) - frac
                                ELSE 10 * IntOfText(whole) + frac])
    ELSE IF IsNonFiniteText(x.s) THEN Ret([finite |-> FALSE, tenths |-> 0])
    ELSE Raise("ValueError")

\* s.split(sep): the pieces between the separators, one more piece than
\* separators, pieces may be empty.
RECURSIVE split(_, _)
split(s, sep) ==
    LET seps == {k \in 1..Len(s) : s[k] = sep} IN
    IF seps = {} THEN <<s>>
    ELSE LET first == CHOOSE k \in seps : \A j \in seps : k <= j
         IN <<SubSeq(s, 1, first - 1)>>
                \o split(SubSeq(s, first + 1, Len(s)), sep)

\* sep.join(parts)
RECURSIVE join(_, _)
join(parts, sep) ==
    IF parts = <<>> THEN <<>>
    ELSE IF Len(parts) = 1 THEN parts[1]
    ELSE parts[1] \o <<sep>> \o join(Tail(parts), sep)

(***************************************************************************)
(* forecast/parser/variables.py                                            *)
(***************************************************************************)
OCEAN_VARIABLES ==
    [wave_height |-> 0, wave_period |-> 1, primary_direction |-> 2,
     total_energy |-> 3, total_power |-> 4,
     windseas_height |-> 5, windseas_period |-> 6, windseas_direction |-> 7,
     windseas_energy |-> 8, windseas_power |-> 9,
     swell_a_height |-> 10, swell_a_period |-> 11, swell_a_direction |-> 12,
     swell_a_energy |-> 13, swell_a_power |-> 14,
     swell_b_height |-> 15, swell_b_period |-> 16, swell_b_direction |-> 17,
     swell_b_energy |-> 18, swell_b_power |-> 19,
     sea_wind |-> 20, sea_wind_direction |-> 21, tides |-> 23]

BEACH_VARIABLES ==
    [wave_height |-> 0, windseas_height |-> 1,
     primary_swell_height |-> 2, secondary_swell_height |-> 3]

ATMOSPHERIC_VARIABLES ==
    [storm_potential |-> 3, pressure |-> 4, temperature |-> 5,
     clouds |-> 6, precipitation |-> 7]

WIND_VARIABLES ==
    [wind |-> 0, wind_direction |-> 1, wind_gust |-> 2, pressure |-> 4]

TIME_HOURS == <<0, 3, 6, 9, 12, 15, 18, 21>>

DIVISOR_FACTOR == 10

\* A float that is an int divided by DIVISOR_FACTOR, kept as the fraction.
Scaled(n) == [num |-> n, den |-> DIVISOR_FACTOR]

(***************************************************************************)
(* forecast/parser/directions.py                                           *)
(***************************************************************************)
\* The table with SO in the place of the second SSO.
DIRECTION_RANGES_with_SO ==
    <<"N", "NNE", "NE", "ENE", "E", "ESE", "SE", "SSE",
      "S", "SSO", "SO", "OSO", "O", "ONO", "NO", "NNO">>

DIRECTION_RANGES ==
    <<"N", "NNE", "NE", "ENE", "E", "ESE", "SE", "SSE",
      "S", "SSO", "SSO", "OSO", "O", "ONO", "NO", "NNO">>

\* normalize_degrees, given what float(degrees_value) returns or raises:
\* degrees as a float; 0 (an int, the same number) when float() raises.
normalize_float(f) ==
    IF f.exc # "" THEN [finite |-> TRUE, tenths |-> 0]
    ELSE IF ~f.val.finite THEN f.val
    ELSE IF f.val.tenths < 0
        THEN [finite |-> TRUE, tenths |-> f.val.tenths + 3600]
    ELSE IF f.val.tenths > 3600
        THEN [finite |-> TRUE, tenths |-> f.val.tenths - 3600]
    ELSE f.val

normalize_degrees(degrees_value) == normalize_float(py_float(degrees_value))

\* The quadrant, were it cut at the ends of the table instead of wrapped
\* by the modulo.
quadrant_of_saturated(tenths) ==
    IF tenths < 0 THEN 0
    ELSE IF 4 * tenths >= 14400 THEN 15
    ELSE ((4 * tenths) + 450) \div 900

\* quadrant_number of get_direction.  With degrees = t / 10,
\* (degrees / 11.25) % 32 + 1 = ((4t) mod 14400 + 450) / 450, and halving and
\* truncating gives the floor of ((4t) mod 14400 + 450) / 900; no t puts the
\* quotient on an integer boundary, so float rounding cannot change it.
quadrant_of(tenths) == (((4 * tenths) % 14400) + 450) \div 900

quadrant_number(degrees) ==
    IF quadrant_of(degrees.tenths) >= 16 THEN quadrant_of(degrees.tenths) - 16
    ELSE quadrant_of(degrees.tenths)

\* get_direction, given degrees = normalize_degrees(degrees_value); int() of
\* a nan raises ValueError (inf % 32 is nan as well).
direction_of(degrees) ==
    IF ~degrees.finite THEN Raise("ValueError")
    ELSE Ret(DIRECTION_RANGES[quadrant_number(degrees) + 1])

get_direction(degrees_value) == direction_of(normalize_degrees(degrees_value))

(***************************************************************************)
(* forecast/parser/parser.py                                               *)
(***************************************************************************)
\* None, as returned by parse_day_variables; a parsed matrix is never
\* empty, because split() returns at least one piece.
NoVars == <<>>

\* n is what int(value) returns or raises.
scaled_or_zero(n) == IF n.exc = "" THEN Scaled(n.val) ELSE Scaled(0)

\* divide_by_ten without the division: float(int(value)).
divide_by_one(value) ==
    [num |-> IF py_int(value).exc = "" THEN py_int(value).val ELSE 0,
     den |-> 1]

divide_by_ten(value) == scaled_or_zero(py_int(value))

\* [v.split(':') for v in variables], the first n of them
RECURSIVE split_each(_, _)
split_each(variables, n) ==
    IF n = 0 THEN <<>>
    ELSE Append(split_each(variables, n - 1), split(variables[n], ":"))

parse_day_variables(data_string) ==
    IF data_string = <<>> THEN NoVars
    ELSE LET variables == split(data_string, ";")
         IN split_each(variables, Len(variables))

\* The list tides after the first n rounds of the loop of parse_tides; each
\* tide entry is 6 characters: HHMM + Dd.
RECURSIVE tides_loop(_, _)
tides_loop(tides_string, n) ==
    IF n = 0 THEN <<>>
    ELSE LET index == (n - 1) * 6 IN
         Append(tides_loop(tides_string, n - 1),
                [time |-> <<tides_string[index + 1], tides_string[index + 2],
                            ":",
                            tides_string[index + 3], tides_string[index + 4]>>,
                 height |-> <<tides_string[index + 5], ".",
                              tides_string[index + 6]>>])

\* parse_tides, were its loop left after the first entry.
parse_tides_first_only(tides_string) ==
    IF tides_string = <<>> \/ Len(tides_string) < 6 THEN <<>>
    ELSE tides_loop(tides_string, 1)

parse_tides(tides_string) ==
    IF tides_string = <<>> \/ Len(tides_string) < 6 THEN <<>>
    ELSE tides_loop(tides_string, Len(tides_string) \div 6)

\* The thresholds, were an angle equal to one of them put in the class
\* above it.
WindTypeOf_inclusive(angle) ==
    IF angle >= 125 THEN "OFFSHORE"
    ELSE IF angle >= 65 THEN "CROSSED"
    ELSE "ONSHORE"

\* The class of an angle between 0 and 180.
WindTypeOf(angle) ==
    IF angle > 125 THEN "OFFSHORE"
    ELSE IF angle > 65 THEN "CROSSED"
    ELSE "ONSHORE"

Abs(n) == IF n < 0 THEN -n ELSE n

\* get_wind_type, given w = what int(wind_direction) returns or raises.
\* beach_orientation and wind_direction are Python values.  Arithmetic and
\* ordering between an int and a str or None raise TypeError, which the
\* function catches, as it does the ValueError of int().
wind_type_of(beach_orientation, wind_direction, w) ==
    IF w.exc # "" \/ beach_orientation.t # "int" THEN "OCEANIC"
    ELSE IF beach_orientation.i - w.val > 180
            \/ beach_orientation.i - w.val < -180
    THEN IF wind_direction.t # "int" THEN "OCEANIC"
         ELSE IF beach_orientation.i < wind_direction.i
             THEN WindTypeOf(Abs(beach_orientation.i + 360
                                 - wind_direction.i))
         ELSE WindTypeOf(Abs(beach_orientation.i - (wind_direction.i + 360)))
    ELSE WindTypeOf(Abs(beach_orientation.i - w.val))

get_wind_type(beach_orientation, wind_direction) ==
    wind_type_of(beach_orientation, wind_direction, py_int(wind_direction))

\* safe_get, were a slot past the end of a row read as the last cell of
\* the row.
safe_get_last_cell(vars_list, var_index, hour_index, default) ==
    IF vars_list = <<>> THEN default
    ELSE IF var_index + 1 > Len(vars_list) THEN default
    ELSE IF vars_list[var_index + 1] = <<>> THEN default
    ELSE IF hour_index + 1 > Len(vars_list[var_index + 1])
    THEN vars_list[var_index + 1][Len(vars_list[var_index + 1])]
    ELSE vars_list[var_index + 1][hour_index + 1]

\* safe_get of parse_waves: IndexError and TypeError (a None matrix) give
\* the default.
safe_get_waves(vars_list, var_index, hour_index, default) ==
    IF vars_list = NoVars THEN default
    ELSE IF var_index + 1 > Len(vars_list) THEN default
    ELSE IF hour_index + 1 > Len(vars_list[var_index + 1]) THEN default
    ELSE vars_list[var_index + 1][hour_index + 1]

\* get_wave_value reading the oceanic matrix whether or not there is an
\* overlay.
get_wave_value_oceanic_only(oceanic_vars, beach_vars, oceanic_key, beach_key, hour_idx) ==
    divide_by_ten(PyStr(safe_get_waves(oceanic_vars,
                                       OCEAN_VARIABLES[oceanic_key],
                                       hour_idx, <<"0">>)))

\* get_wave_value with divide = True, the only way it is called.
get_wave_value(oceanic_vars, beach_vars, oceanic_key, beach_key, hour_idx) ==
    LET val == IF beach_vars # NoVars
               THEN safe_get_waves(beach_vars, BEACH_VARIABLES[beach_key],
                                   hour_idx, <<"0">>)
               ELSE safe_get_waves(oceanic_vars, OCEAN_VARIABLES[oceanic_key],
                                   hour_idx, <<"0">>)
    IN divide_by_ten(PyStr(val))

\* safe_get(oceanic_vars, OCEAN_VARIABLES[key], index) of parse_waves
ocean_cell(oceanic_vars, key, index) ==
    PyStr(safe_get_waves(oceanic_vars, OCEAN_VARIABLES[key], index, <<"0">>))

\* One channel of the dict parse_waves returns, given its six fields as the
\* calls returned or raised them; the fields are evaluated in the order
\* written, and the first int() or get_direction() that raises ends the
\* call.
wave_channel_of(value, period, direction, directionDegree, power, energy) ==
    IF direction.exc # "" THEN Raise(direction.exc)
    ELSE IF directionDegree.exc # "" THEN Raise(directionDegree.exc)
    ELSE IF energy.exc # "" THEN Raise(energy.exc)
    ELSE Ret([value |-> value,
              period |-> period,
              direction |-> direction.val,
              directionDegree |-> directionDegree.val,
              power |-> power,
              energy |-> energy.val])

wave_channel(oceanic_vars, beach_vars, height_key, beach_key, period_key, direction_key, power_key, energy_key, index) ==
    wave_channel_of(
        get_wave_value(oceanic_vars, beach_vars, height_key, beach_key, index),
        divide_by_ten(ocean_cell(oceanic_vars, period_key, index)),
        get_direction(ocean_cell(oceanic_vars, direction_key, index)),
        py_int(ocean_cell(oceanic_vars, direction_key, index)),
        divide_by_ten(ocean_cell(oceanic_vars, power_key, index)),
        py_int(ocean_cell(oceanic_vars, energy_key, index)))

\* The dict of parse_waves, given its four channels.
waves_of(totalHeight, windseas, swellA, swellB) ==
    IF totalHeight.exc # "" THEN Raise(totalHeight.exc)
    ELSE IF windseas.exc # "" THEN Raise(windseas.exc)
    ELSE IF swellA.exc # "" THEN Raise(swellA.exc)
    ELSE IF swellB.exc # "" THEN Raise(swellB.exc)
    ELSE Ret([totalHeight |-> totalHeight.val, windseas |-> windseas.val,
              swellA |-> swellA.val, swellB |-> swellB.val])

parse_waves(oceanic_vars, beach_vars, index) ==
    waves_of(
        wave_channel(oceanic_vars, beach_vars, "wave_height", "wave_height",
                     "wave_period", "primary_direction", "total_power",
                     "total_energy", index),
        wave_channel(oceanic_vars, beach_vars, "windseas_height",
                     "windseas_height", "windseas_period",
                     "windseas_direction", "windseas_power",
                     "windseas_energy", index),
        wave_channel(oceanic_vars, beach_vars, "swell_a_height",
                     "primary_swell_height", "swell_a_period",
                     "swell_a_direction", "swell_a_power", "swell_a_energy",
                     index),
        wave_channel(oceanic_vars, beach_vars, "swell_b_height",
                     "secondary_swell_height", "swell_b_period",
                     "swell_b_direction", "swell_b_power", "swell_b_energy",
                     index))

\* safe_get of parse_winds: "if not vars_list" comes first.
safe_get_winds(vars_list, var_index, hour_index, default) ==
    IF vars_list = NoVars THEN default
    ELSE IF var_index + 1 > Len(vars_list) THEN default
    ELSE IF hour_index + 1 > Len(vars_list[var_index + 1]) THEN default
    ELSE vars_list[var_index + 1][hour_index + 1]

\* The wind type of parse_winds: the classifier is given the cell as read,
\* a str.
coast_wind_type(beach_orientation, wind_direction, forecast_type) ==
    IF forecast_type = "SURF" /\ beach_orientation.t # "None"
    THEN get_wind_type(beach_orientation, PyStr(wind_direction))
    ELSE "OCEANIC"

\* safe_get(atmospheric_vars, WIND_VARIABLES[key], index) of parse_winds
wind_cell(atmospheric_vars, key, index) ==
    safe_get_winds(atmospheric_vars, WIND_VARIABLES[key], index, <<"0">>)

\* safe_get(oceanic_vars, OCEAN_VARIABLES[key], 0, '0') of parse_winds
sea_cell(oceanic_vars, key) ==
    PyStr(safe_get_winds(oceanic_vars, OCEAN_VARIABLES[key], 0, <<"0">>))

\* The dict of parse_winds, given its fields as the calls returned or raised
\* them, in the order written.
winds_of(directionDegree, wind, windGust, pressure, wind_type, direction, sea_direction, sea_wind) ==
    IF directionDegree.exc # "" THEN Raise(directionDegree.exc)
    ELSE IF wind.exc # "" THEN Raise(wind.exc)
    ELSE IF windGust.exc # "" THEN Raise(windGust.exc)
    ELSE IF direction.exc # "" THEN Raise(direction.exc)
    ELSE IF sea_direction.exc # "" THEN Raise(sea_direction.exc)
    ELSE IF sea_wind.exc # "" THEN Raise(sea_wind.exc)
    ELSE Ret([coast |-> [directionDegree |-> directionDegree.val,
                         wind |-> wind.val,
                         windGust |-> windGust.val,
                         pressure |-> pressure,
                         type |-> wind_type,
                         direction |-> direction.val],
              sea |-> [direction |-> sea_direction.val,
                       wind |-> sea_wind.val]])

\* parse_winds, were the sea wind read at the slot of the hour.
parse_winds_sea_at_slot(beach_orientation, atmospheric_vars, oceanic_vars, forecast_type, index) ==
    winds_of(
        py_int(PyStr(wind_cell(atmospheric_vars, "wind_direction", index))),
        py_int(PyStr(wind_cell(atmospheric_vars, "wind", index))),
        py_int(PyStr(wind_cell(atmospheric_vars, "wind_gust", index))),
        safe_get_winds(atmospheric_vars, ATMOSPHERIC_VARIABLES.pressure, index,
                       <<"0">>),
        coast_wind_type(beach_orientation,
                        wind_cell(atmospheric_vars, "wind_direction", index),
                        forecast_type),
        get_direction(PyStr(wind_cell(atmospheric_vars, "wind_direction",
                                      index))),
        py_int(PyStr(safe_get_winds(oceanic_vars,
                                    OCEAN_VARIABLES.sea_wind_direction, index,
                                    <<"0">>))),
        py_int(PyStr(safe_get_winds(oceanic_vars, OCEAN_VARIABLES.sea_wind,
                                    index, <<"0">>))))

parse_winds(beach_orientation, atmospheric_vars, oceanic_vars, forecast_type, index) ==
    winds_of(
        py_int(PyStr(wind_cell(atmospheric_vars, "wind_direction", index))),
        py_int(PyStr(wind_cell(atmospheric_vars, "wind", index))),
        py_int(PyStr(wind_cell(atmospheric_vars, "wind_gust", index))),
        safe_get_winds(atmospheric_vars, ATMOSPHERIC_VARIABLES.pressure, index,
                       <<"0">>),
        coast_wind_type(beach_orientation,
                        wind_cell(atmospheric_vars, "wind_direction", index),
                        forecast_type),
        get_direction(PyStr(wind_cell(atmospheric_vars, "wind_direction",
                                      index))),
        py_int(sea_cell(oceanic_vars, "sea_wind_direction")),
        py_int(sea_cell(oceanic_vars, "sea_wind")))

\* n is what int(cell) returns or raises.
int_or_zero(n) == IF n.exc = "" THEN n.val ELSE 0

\* safe_get of parse_atmospheric: the int() is inside the try.
safe_get_atmospheric(vars_list, var_index, hour_index) ==
    IF vars_list = NoVars THEN 0
    ELSE IF var_index + 1 > Len(vars_list) THEN 0
    ELSE IF hour_index + 1 > Len(vars_list[var_index + 1]) THEN 0
    ELSE int_or_zero(py_int(PyStr(vars_list[var_index + 1][hour_index + 1])))

parse_atmospheric(atmospheric_vars, index) ==
    LET at(key) == safe_get_atmospheric(atmospheric_vars,
                                        ATMOSPHERIC_VARIABLES[key], index)
    IN [pressure |-> at("pressure"), temperature |-> at("temperature"),
        clouds |-> at("clouds"), precipitation |-> at("precipitation"),
        stormPotential |-> at("storm_potential")]

\* f"{str(hour).zfill(2)}:00"
hour_label(hour) == zfill(IntStr(hour), 2) \o <<":", "0", "0">>

\* hours.append({...}) of parse_wave_hours: hours is the list so far, or the
\* exception that has ended the loop.
hours_append(hours, hour, waves, winds, atmospheric) ==
    IF hours.exc # "" THEN hours
    ELSE IF waves.exc # "" THEN Raise(waves.exc)
    ELSE IF winds.exc # "" THEN Raise(winds.exc)
    ELSE Ret(Append(hours.val,
                    [hour |-> hour, waves |-> waves.val, winds |-> winds.val,
                     atmospheric |-> atmospheric]))

\* The list hours after the first n rounds of the loop of parse_wave_hours,
\* or the exception that ended it.
RECURSIVE hours_loop(_, _, _, _, _, _)
hours_loop(beach_orientation, oceanic_vars, beach_vars, atmospheric_vars, forecast_type, n) ==
    IF n = 0 THEN Ret(<<>>)
    ELSE hours_append(
             hours_loop(beach_orientation, oceanic_vars, beach_vars,
                        atmospheric_vars, forecast_type, n - 1),
             hour_label(TIME_HOURS[n]),
             parse_waves(oceanic_vars, beach_vars, n - 1),
             parse_winds(beach_orientation, atmospheric_vars, oceanic_vars,
                         forecast_type, n - 1),
             parse_atmospheric(atmospheric_vars, n - 1))

\* The loop stopping one slot short of TIME_HOURS.
parse_wave_hours_one_short(beach_orientation, oceanic_vars, beach_vars, atmospheric_vars, forecast_type) ==
    hours_loop(beach_orientation, oceanic_vars, beach_vars, atmospheric_vars,
               forecast_type, Len(TIME_HOURS) - 1)

parse_wave_hours(beach_orientation, oceanic_vars, beach_vars, atmospheric_vars, forecast_type) ==
    hours_loop(beach_orientation, oceanic_vars, beach_vars, atmospheric_vars,
               forecast_type, Len(TIME_HOURS))

(***************************************************************************)
(* The JSON files of the blob store and datetime.                          *)
(*                                                                         *)
(* A fetched file is None, {} ("empty"), a dict without 'dados'            *)
(* ("nodados") or a dict with 'dados'.  'dados' is a dict: date holds the  *)
(* keys among ano/mes/dia, v the keys v<N> and s the keys s<N> that are    *)
(* present, each day key with its day-blob string.                         *)
(***************************************************************************)
EmptyDados == [date |-> <<>>, v |-> <<>>, s |-> <<>>]

NoneFile == [kind |-> "None", dados |-> EmptyDados]

\* bool(data) of a fetched file
FileTruthy(file) == file.kind \in {"nodados", "dados"}

\* bool(dados) of a dict
DadosTruthy(dados) ==
    DOMAIN dados.date # {} \/ DOMAIN dados.v # {} \/ DOMAIN dados.s # {}

\* data.get(f'{var_type}{day_idx}', '')
day_string(dados, var_type, day_idx) ==
    IF day_idx \in DOMAIN dados[var_type] THEN dados[var_type][day_idx]
    ELSE <<>>

\* f"{x}" of a Python value
format(x) == IF x.t = "str" THEN x.s
             ELSE IF x.t = "int" THEN IntStr(x.i)
             ELSE <<"N", "o", "n", "e">>

IsLeap(y) == (y % 4 = 0 /\ y % 100 # 0) \/ y % 400 = 0

DaysInMonth(y, m) ==
    IF m = 2 THEN (IF IsLeap(y) THEN 29 ELSE 28)
    ELSE IF m \in {4, 6, 9, 11} THEN 30
    ELSE 31

\* datetime.strptime(date_string, '%Y-%m-%d'): four digits of year, one or
\* two of month and of day, and a date of the calendar.
strptime(date_string) ==
    LET parts == split(date_string, "-") IN
    IF Len(parts) # 3 THEN Raise("ValueError")
    ELSE IF ~(AllDigits(parts[1]) /\ Len(parts[1]) = 4) THEN Raise("ValueError")
    ELSE IF ~(AllDigits(parts[2]) /\ Len(parts[2]) <= 2) THEN Raise("ValueError")
    ELSE IF ~(AllDigits(parts[3]) /\ Len(parts[3]) <= 2) THEN Raise("ValueError")
    ELSE LET y == NatOf(parts[1])
             m == NatOf(parts[2])
             d == NatOf(parts[3])
         IN IF y < 1 \/ m < 1 \/ m > 12 THEN Raise("ValueError")
            ELSE IF d < 1 \/ d > DaysInMonth(y, m) THEN Raise("ValueError")
            ELSE Ret([y |-> y, m |-> m, d |-> d])

\* The day after, were the day of the month counted on without end.
NextDay_no_rollover(date) == [date EXCEPT !.d = date.d + 1]

NextDay(date) ==
    IF date.d < DaysInMonth(date.y, date.m)
        THEN [date EXCEPT !.d = date.d + 1]
    ELSE IF date.m < 12 THEN [y |-> date.y, m |-> date.m + 1, d |-> 1]
    ELSE [y |-> date.y + 1, m |-> 1, d |-> 1]

\* date + timedelta(days = n)
RECURSIVE AddDays(_, _)
AddDays(date, n) == IF n = 0 THEN date ELSE AddDays(NextDay(date), n - 1)

\* date.strftime('%Y-%m-%d')
strftime(date) ==
    zfill(NatStr(date.y), 4) \o <<"-">> \o zfill(NatStr(date.m), 2)
        \o <<"-">> \o zfill(NatStr(date.d), 2)

\* f"{dados.get('ano', now.year)}-{dados.get('mes', now.month)}-{...}"
date_string_of(dados, now) ==
    LET part(key, default) ==
            IF key \in DOMAIN dados.date THEN format(dados.date[key])
            ELSE IntStr(default)
    IN part("ano", now.y) \o <<"-">> \o part("mes", now.m)
           \o <<"-">> \o part("dia", now.d)

\* datetime.MAXYEAR: a later date raises OverflowError.
MAXYEAR == 9999

\* The tides of a day, were they decoded on every day that has the row.
tides_of_every_day(oceanic_vars, day_idx) ==
    IF Len(oceanic_vars) > OCEAN_VARIABLES.tides
    THEN parse_tides(oceanic_vars[OCEAN_VARIABLES.tides + 1][1])
    ELSE <<>>

\* The tides of a day: only day 0 carries them, in the first cell of the
\* row OCEAN_VARIABLES['tides'].
tides_of(oceanic_vars, day_idx) ==
    IF day_idx = 0 /\ Len(oceanic_vars) > OCEAN_VARIABLES.tides
    THEN parse_tides(oceanic_vars[OCEAN_VARIABLES.tides + 1][1])
    ELSE <<>>

\* days.append({'day': ..., 'hours': ..., 'tides': ...}) of parse_days
day_of(date_str, hours, tides) ==
    IF hours.exc # "" THEN Raise(hours.exc)
    ELSE Ret([day |-> date_str, hours |-> hours.val, tides |-> tides])

\* The body of the loop of parse_days, given the date of the day and the
\* parsed day-blobs of the three layers.
parse_day_of(date, oceanic_vars, beach_vars, atmospheric_vars, beach_orientation, forecast_type, day_idx) ==
    IF date.y > MAXYEAR THEN Raise("OverflowError")
    ELSE IF oceanic_vars = NoVars
    THEN Ret([day |-> strftime(date), hours |-> <<>>, tides |-> <<>>])
    ELSE day_of(strftime(date),
                parse_wave_hours(beach_orientation, oceanic_vars, beach_vars,
                                 atmospheric_vars, forecast_type),
                tides_of(oceanic_vars, day_idx))

\* One iteration of the loop of parse_days.
parse_day(atmos_dados, ocean_dados, base_date, beach_orientation, forecast_type, day_idx) ==
    parse_day_of(AddDays(base_date, day_idx),
                 parse_day_variables(day_string(ocean_dados, "v", day_idx)),
                 parse_day_variables(day_string(ocean_dados, "s", day_idx)),
                 parse_day_variables(day_string(atmos_dados, "v", day_idx)),
                 beach_orientation, forecast_type, day_idx)

\* The number of days of a forecast.
NumDays == 15

\* 'dados' of a fetched file: data.get('dados', {}) if data else {}
dados_of(data) == IF data.kind = "dados" THEN data.dados ELSE EmptyDados

\* The loop of parse_days, were a day without hours left out of the list.
days_append_skipping_empty(days, day) ==
    IF days.exc # "" THEN days
    ELSE IF day.exc # "" THEN Raise(day.exc)
    ELSE IF day.val.hours = <<>> THEN days
    ELSE Ret(Append(days.val, day.val))

\* days.append(day) of parse_days: days is the list so far, or the
\* exception that has ended the loop.
days_append(days, day) ==
    IF days.exc # "" THEN days
    ELSE IF day.exc # "" THEN Raise(day.exc)
    ELSE Ret(Append(days.val, day.val))

\* The list days after the first n rounds of the loop of parse_days, or the
\* exception that ended it.
RECURSIVE days_loop(_, _, _, _, _, _)
days_loop(atmos_dados, ocean_dados, base_date, beach_orientation, forecast_type, n) ==
    IF n = 0 THEN Ret(<<>>)
    ELSE days_append(days_loop(atmos_dados, ocean_dados, base_date,
                               beach_orientation, forecast_type, n - 1),
                     parse_day(atmos_dados, ocean_dados, base_date,
                               beach_orientation, forecast_type, n - 1))

\* The base date of parse_days: the date of 'dados', or datetime.now() when
\* strptime raises.
base_date_of(parsed, now) == IF parsed.exc = "" THEN parsed.val ELSE now

\* now is what datetime.now() returns.
parse_days(atmospheric_data, oceanic_data, beach_orientation, forecast_type, now) ==
    days_loop(dados_of(atmospheric_data), dados_of(oceanic_data),
              base_date_of(strptime(date_string_of(dados_of(oceanic_data),
                                                   now)), now),
              beach_orientation, forecast_type, NumDays)

(***************************************************************************)
(* forecast/parser/builder.py                                              *)
(***************************************************************************)
\* The inner loop, were max_val set anew for every row.
max_of_values_forgetting(values, max_val) ==
    LET nums == {py_int(PyStr(values[k])).val :
                    k \in {j \in 1..Len(values) :
                              py_int(PyStr(values[j])).exc = ""}}
    IN CHOOSE m \in nums \cup {0} : \A n \in nums \cup {0} : n <= m

\* The inner loop of the aggregators: max_val after "if num_val > max_val:
\* max_val = num_val" over the cells of a row; a cell int() rejects is
\* passed over.
max_of_values(values, max_val) ==
    LET nums == {py_int(PyStr(values[k])).val :
                    k \in {j \in 1..Len(values) :
                              py_int(PyStr(values[j])).exc = ""}}
    IN CHOOSE m \in nums \cup {max_val} : \A n \in nums \cup {max_val} : n <= m

\* max_val after the first n days of the loop of get_max_value and
\* get_max_wind.
RECURSIVE max_over_days(_, _, _, _)
max_over_days(data, var_type, var_index, n) ==
    IF n = 0 THEN 0
    ELSE LET max_val == max_over_days(data, var_type, var_index, n - 1)
             day_str == day_string(data, var_type, n - 1)
             variables == split(day_str, ";")
         IN IF day_str = <<>> THEN max_val
            ELSE IF var_index < Len(variables)
                THEN max_of_values(split(variables[var_index + 1], ":"),
                                   max_val)
            ELSE max_val

\* The float 0.0 returned for no data equals the int 0.
get_max_value(data, var_key, var_type, should_divide) ==
    LET max_val ==
            IF ~DadosTruthy(data) THEN 0
            ELSE IF var_key \notin DOMAIN OCEAN_VARIABLES THEN 0
            ELSE max_over_days(data, var_type, OCEAN_VARIABLES[var_key], NumDays)
    IN IF should_divide THEN Scaled(max_val) ELSE max_val

get_max_height(data, var_type) ==
    get_max_value(data, "wave_height", var_type, TRUE)

get_max_wind(atmospheric_data) ==
    IF ~DadosTruthy(atmospheric_data) THEN 0
    ELSE max_over_days(atmospheric_data, "v", 0, NumDays)

\* "x is not None" in the place of bool(x).
is_not_none(x) == x.t # "None"

\* bool(x) of a Python value
truthy(x) == (x.t = "int" /\ x.i # 0) \/ (x.t = "str" /\ x.s # <<>>)

\* int(orientation) if orientation is not None else None
beach_orientation_if_not_none(orientation, as_int) ==
    IF orientation.t # "None" /\ as_int.exc = "" THEN PyInt(as_int.val)
    ELSE PyNone

\* int(orientation) if orientation else None; as_int is what
\* int(orientation) returns.
beach_orientation_of(orientation, as_int) ==
    IF truthy(orientation) /\ as_int.exc = "" THEN PyInt(as_int.val)
    ELSE PyNone

\* The dict forecast_obj of build_forecast.
forecast_obj_of(ocean_dados, atmos_dados, days) ==
    [maxHeight |-> get_max_height(ocean_dados, "v"),
     maxEnergy |-> get_max_value(ocean_dados, "total_energy", "v", FALSE),
     maxPower |-> get_max_value(ocean_dados, "total_power", "v", TRUE),
     maxWind |-> get_max_wind(atmos_dados),
     days |-> days]

\* The dict build_forecast returns, given the beach orientation and the
\* days as parse_days returned or raised them.
forecast_of(beach_data, forecast_type, ocean_dados, atmos_dados, beach_orientation, days, now) ==
    IF days.exc # "" THEN Raise(days.exc)
    ELSE Ret([id |-> format(beach_data.praia_id),
              date |-> date_string_of(ocean_dados, now),
              type |-> forecast_type,
              name |-> beach_data.nome,
              orientation |-> IF beach_orientation.t = "int"
                              THEN beach_orientation.i ELSE 0,
              forecast |-> forecast_obj_of(ocean_dados, atmos_dados,
                                           days.val)])

\* build_forecast once int(orientation) has not raised.
build_with_orientation(beach_data, forecast_type, atmospheric_data, oceanic_data, beach_orientation, now) ==
    forecast_of(beach_data, forecast_type, dados_of(oceanic_data),
                dados_of(atmospheric_data), beach_orientation,
                parse_days(atmospheric_data, oceanic_data, beach_orientation,
                           forecast_type, now),
                now)

\* build_forecast, as_int being what int(orientation) returns or raises.
build_forecast_of(beach_data, forecast_type, atmospheric_data, oceanic_data, as_int, now) ==
    IF truthy(beach_data.orientacao) /\ as_int.exc # "" THEN Raise(as_int.exc)
    ELSE build_with_orientation(beach_data, forecast_type, atmospheric_data,
                                oceanic_data,
                                beach_orientation_of(beach_data.orientacao,
                                                     as_int),
                                now)

\* beach_data is the row of the resolver.  The rows the handlers pass carry
\* no 'nome_do_mapa', so forecastMapUrl is never added.
build_forecast(beach_data, forecast_type, atmospheric_data, oceanic_data, now) ==
    build_forecast_of(beach_data, forecast_type, atmospheric_data,
                      oceanic_data, py_int(beach_data.orientacao), now)

(***************************************************************************)
(* Inputs: day-blobs, files and resolver rows.                             *)
(***************************************************************************)
\* The day-blob of a matrix of cells: rows joined by ";", cells by ":".
Blob(rows) == join([k \in 1..Len(rows) |-> join(rows[k], ":")], ";")

\* A row of integer cells.
IntRow(ns) == [k \in 1..Len(ns) |-> IntStr(ns[k])]

\* The oceanic v0 of tests/test_builder.py, with the tide string of the
\* decoder's examples in row 23.
OceanFullRows ==
    <<IntRow(<<15, 14, 13, 12, 11, 10, 9, 8>>),
      IntRow(<<10, 10, 9, 9, 8, 8, 7, 7>>),
      IntRow(<<180, 190, 200, 210, 180, 190, 200, 180>>),
      IntRow(<<100, 90, 80, 70, 60, 50, 40, 30>>),
      IntRow(<<15, 14, 13, 12, 11, 10, 9, 8>>),
      IntRow(<<5, 4, 3, 3, 2, 2, 1, 1>>),
      IntRow(<<6, 6, 5, 5, 4, 4, 3, 3>>),
      IntRow(<<190, 200, 210, 220, 190, 200, 210, 190>>),
      IntRow(<<50, 45, 40, 35, 30, 25, 20, 15>>),
      IntRow(<<5, 4, 4, 3, 3, 2, 2, 1>>),
      IntRow(<<8, 7, 6, 5, 4, 3, 2, 2>>),
      IntRow(<<7, 7, 6, 6, 5, 5, 4, 4>>),
      IntRow(<<200, 210, 220, 230, 200, 210, 220, 200>>),
      IntRow(<<60, 55, 50, 45, 40, 35, 30, 25>>),
      IntRow(<<6, 5, 5, 4, 4, 3, 3, 2>>),
      IntRow(<<4, 3, 2, 2, 2, 1, 1, 1>>),
      IntRow(<<5, 5, 4, 4, 3, 3, 2, 2>>),
      IntRow(<<220, 230, 240, 250, 220, 230, 240, 220>>),
      IntRow(<<40, 35, 30, 25, 20, 15, 10, 5>>),
      IntRow(<<4, 3, 3, 2, 2, 1, 1, 0>>),
      IntRow(<<10, 11, 12, 13, 14, 15, 16, 17>>),
      IntRow(<<220, 225, 230, 235, 240, 245, 250, 255>>),
      IntRow(<<0, 0, 0, 0, 0, 0, 0, 0>>),
      <<<<"0", "5", "0", "0", "1", "5", "1", "1", "3", "0", "0", "8">>>> >>

OceanFull == Blob(OceanFullRows)

OceanShort == Blob(<<IntRow(<<15, 14>>), IntRow(<<10>>)>>)

\* Row 0 has a ninth cell, larger than the eight that are slots.
OceanLong == Blob(<<IntRow(<<5, 6, 7, 8, 9, 10, 11, 12, 77>>)>>)

\* Heights that are no integers: text, a decimal, an empty cell.
OceanBadHeight ==
    Blob(<<<<<<"a", "b", "c">>, <<"1", ".", "5">>, <<>>, <<"8">>>>>>)

\* A direction cell (row 2) that is no integer.
OceanBadDegree ==
    Blob(<<IntRow(<<15>>), IntRow(<<10>>), <<<<"a", "b", "c">>>>>>)

\* The beach overlay of tests/test_parser.py, and one of a single cell.
BeachFull ==
    Blob(<<IntRow(<<12, 11, 10, 9, 8, 7, 6, 5>>),
           IntRow(<<5, 4, 3, 3, 2, 2, 1, 1>>),
           IntRow(<<8, 7, 6, 5, 4, 3, 2, 2>>),
           IntRow(<<4, 3, 2, 2, 2, 1, 1, 1>>)>>)

BeachShort == Blob(<<IntRow(<<99>>)>>)

\* The atmospheric v0 of tests/test_builder.py.
AtmosFull ==
    Blob(<<IntRow(<<10, 12, 14, 16, 18, 20, 22, 24>>),
           IntRow(<<180, 190, 200, 180, 190, 200, 180, 180>>),
           IntRow(<<15, 18, 20, 22, 25, 28, 30, 32>>),
           IntRow(<<0, 0, 0, 0, 0, 0, 0, 0>>),
           IntRow(<<1015, 1014, 1013, 1012, 1011, 1012, 1013, 1014>>),
           IntRow(<<28, 27, 26, 28, 30, 32, 31, 29>>),
           IntRow(<<20, 30, 50, 70, 80, 60, 40, 25>>),
           IntRow(<<0, 0, 0, 5, 10, 5, 0, 0>>)>>)

\* Wind 35 and a wind from 270 degrees at slot 0, nothing else.
AtmosShort == Blob(<<IntRow(<<35, 12>>), IntRow(<<270>>)>>)

\* A wind cell that is no integer.
AtmosBadWind == Blob(<<<<<<"x">>>>, IntRow(<<180>>)>>)

Text(n) == PyStr(IntStr(n))

\* ano / mes / dia as the test files carry them: '2026', '03', '01'.
Date20260301 ==
    [ano |-> PyStr(<<"2", "0", "2", "6">>), mes |-> PyStr(<<"0", "3">>),
     dia |-> PyStr(<<"0", "1">>)]

\* Dates whose fortnight crosses the end of a year and the end of the
\* February of a leap year; JSON numbers, and texts without zero padding.
Date20261225 ==
    [ano |-> PyInt(2026), mes |-> PyInt(12), dia |-> PyInt(25)]

Date20240220 ==
    [ano |-> PyStr(<<"2", "0", "2", "4">>), mes |-> PyStr(<<"2">>),
     dia |-> PyStr(<<"2", "0">>)]

\* A month that does not exist: strptime raises and today is used.
DateBadMonth ==
    [ano |-> PyInt(2026), mes |-> PyInt(13), dia |-> PyInt(1)]

Days == 0..(NumDays - 1)

AllDays(blob) == [k \in Days |-> blob]
OneDay(day, blob) == [k \in {day} |-> blob]
\* blob on day 0 and on day 1
TwoDays(blob) == [k \in {0, 1} |-> blob]
\* blob on one day, other on the days around it
Mixed(day, blob, other) == [k \in Days |-> IF k = day THEN blob ELSE other]

File(date, v, s) == [kind |-> "dados", dados |-> [date |-> date, v |-> v, s |-> s]]

EmptyFile == [kind |-> "empty", dados |-> EmptyDados]
NoDadosFile == [kind |-> "nodados", dados |-> EmptyDados]
\* {'dados': {}}
EmptyDadosFile == [kind |-> "dados", dados |-> EmptyDados]

(***************************************************************************)
(* common/responses.py                                                     *)
(***************************************************************************)
\* body is the value json.dumps is given.
response(status_code, body) == [statusCode |-> status_code, body |-> body]

success(body) == response(200, body)

bad_request == response(400, [error |-> "BadRequest"])

not_found == response(404, [error |-> "NotFound"])

\* What the caller of lambda_handler has of a call that raised: no
\* response, but the exception.
raised == response(0, [error |-> "Exception"])

server_error == response(500, [error |-> "ServerError"])

(***************************************************************************)
(* common/db.py                                                            *)
(*                                                                         *)
(* The handle _connection is 0 for None, and otherwise the number of the   *)
(* connection: the k-th connection the process opened is k.                *)
(***************************************************************************)
\* What the database does with one call: the rows are returned, the
\* connection cannot be made, the statement fails with a pymysql.Error, or
\* something that is no pymysql.Error is raised.
QueryOutcomes == {"rows", "connect_error", "sql_error", "other_error"}

\* get_connection without the test "_connection is None": every call
\* connects.
get_connection_always(conn, opens, outcome) ==
    IF outcome = "connect_error"
    THEN [exc |-> "pymysql.Error", connection |-> conn, opened |-> FALSE]
    ELSE [exc |-> "", connection |-> opens + 1, opened |-> TRUE]

\* connection is the handle before the call, opens the connections opened
\* so far.
get_connection(conn, opens, outcome) ==
    IF conn = 0
    THEN IF outcome = "connect_error"
         THEN [exc |-> "pymysql.Error", connection |-> 0, opened |-> FALSE]
         ELSE [exc |-> "", connection |-> opens + 1, opened |-> TRUE]
    ELSE [exc |-> "", connection |-> conn, opened |-> FALSE]

\* execute_query without "_connection = None" in the except clause.
execute_query_no_reset(conn, opens, outcome, rows) ==
    LET c == get_connection(conn, opens, outcome) IN
    IF c.exc # "" \/ outcome = "sql_error"
    THEN [connection |-> c.connection, opened |-> c.opened,
          ret |-> Raise("pymysql.Error")]
    ELSE IF outcome = "other_error"
    THEN [connection |-> c.connection, opened |-> c.opened,
          ret |-> Raise("Exception")]
    ELSE [connection |-> c.connection, opened |-> c.opened, ret |-> Ret(rows)]

\* The handle after the call, whether the call opened a connection, and
\* what the call returns or raises.
execute_query(conn, opens, outcome, rows) ==
    LET c == get_connection(conn, opens, outcome) IN
    IF c.exc # "" \/ outcome = "sql_error"
    THEN [connection |-> 0, opened |-> c.opened,
          ret |-> Raise("pymysql.Error")]
    ELSE IF outcome = "other_error"
    THEN [connection |-> c.connection, opened |-> c.opened,
          ret |-> Raise("Exception")]
    ELSE [connection |-> c.connection, opened |-> c.opened, ret |-> Ret(rows)]

(***************************************************************************)
(* forecast/legacy.py                                                      *)
(***************************************************************************)
\* What the bucket does with one get_object: the object is there and is
\* JSON, there is no such key, another ClientError, or any other exception
\* (the network, a body that is no JSON).
FetchOutcomes == {"ok", "NoSuchKey", "ClientError", "Exception"}

fetch_s3_object(outcome, file) ==
    IF outcome = "ok" THEN Ret(file)
    ELSE IF outcome = "NoSuchKey" THEN Ret(NoneFile)
    ELSE Raise(outcome)

\* The fetch outside a try: what fetch_s3_object raises goes on.
try_fetch_uncaught(outcome, file) == fetch_s3_object(outcome, file)

\* data = None; try: data = fetch_s3_object(...) except Exception: log
try_fetch(outcome, file) ==
    LET r == fetch_s3_object(outcome, file) IN
    IF r.exc # "" THEN Ret(NoneFile) ELSE r

\* bool(data.get('dados')) of a file that is a dict
HasDados(file) == file.kind = "dados" /\ DadosTruthy(file.dados)

\* The test "oceanic_data is not None" alone.
surf_has_required_data_none_only(oceanic_data) == oceanic_data.kind # "None"

\* not (not oceanic_data or not oceanic_data.get('dados'))
surf_has_required_data(oceanic_data) ==
    FileTruthy(oceanic_data) /\ HasDados(oceanic_data)

\* not (not atmospheric_data or not atmospheric_data.get('dados'))
regional_has_required_data(atmospheric_data) ==
    FileTruthy(atmospheric_data) /\ HasDados(atmospheric_data)

\* The beach_data handle_regional_forecast builds of the row of locais.
regional_beach_data(location) ==
    [praia_id |-> location.praia_id, nome |-> location.nome,
     orientacao |-> PyNone]

\* try: success(build_forecast(...)) except Exception: server_error(...)
build_response(beach_data, forecast_type, atmospheric_data, oceanic_data, now) ==
    LET forecast == build_forecast(beach_data, forecast_type,
                                   atmospheric_data, oceanic_data, now)
    IN IF forecast.exc # "" THEN server_error ELSE success(forecast.val)

(***************************************************************************)
(* The worker: one process that serves /forecast requests one at a time.   *)
(***************************************************************************)
VARIABLES
    connection,        \* db._connection
    db_opens,          \* connections this process has opened
    s3_client,         \* legacy._s3_client is not None
    s3_creates,        \* S3 clients this process has created
    requests,          \* requests received so far
    pc,                \* where the request in progress stands
    event,             \* its query-string parameters
    forecast_type,     \* "SURF" for praia_id, "OCEANIC" for coastId
    beach,             \* result[0] of the resolver
    atmospheric_data,  \* the handler's local of that name
    oceanic_data,      \* the handler's local of that name
    reply,             \* what lambda_handler returns
    last_query,        \* the last execute_query call of the process
    atmos_fetch,       \* what the bucket did with the atmospheric fetch
    oceanic_fetch,     \* what the bucket did with the oceanic fetch
    builds,            \* calls of build_forecast in this request
    call,              \* a call of a function of the parser, on its own
    ret                \* what that call returned

vars == <<connection, db_opens, s3_client, s3_creates, requests, pc, event,
          forecast_type, beach, atmospheric_data, oceanic_data, reply,
          last_query, atmos_fetch, oceanic_fetch, builds, call, ret>>

worker_vars == <<connection, db_opens, s3_client, s3_creates, requests, pc,
                 event, forecast_type, beach, atmospheric_data, oceanic_data,
                 reply, last_query, atmos_fetch, oceanic_fetch, builds>>

\* Requests one worker serves.
MaxRequests == 2

NoEvent == [qs |-> FALSE, praia_id |-> PyNone, coastId |-> PyNone]
NoRow == [praia_id |-> PyNone, nome |-> "", orientacao |-> PyNone,
          litoral_id |-> PyNone]
NoResponse == response(0, <<>>)
NoQuery == [outcome |-> "", opened |-> FALSE, handle_before |-> 0,
            after_sql_error |-> FALSE, request |-> 0, rows |-> 0]
NoCall == [fn |-> "", args |-> <<>>]
NoRet == [fn |-> "", val |-> <<>>]

\* queryStringParameters: absent, or a dict of strings.
Events ==
    {NoEvent,
     [qs |-> TRUE, praia_id |-> Text(12), coastId |-> PyNone],
     [qs |-> TRUE, praia_id |-> PyNone, coastId |-> Text(7)],
     [qs |-> TRUE, praia_id |-> Text(12), coastId |-> Text(7)],
     [qs |-> TRUE, praia_id |-> PyStr(<<>>), coastId |-> PyNone]}

\* Rows of praias: orientacao is an integer column that may be NULL.
SurfRows ==
    {[praia_id |-> PyInt(12), nome |-> "Joaquina", orientacao |-> o,
      litoral_id |-> PyInt(7)] : o \in {PyInt(92), PyInt(200), PyNone}}

\* The row of locais: id is praia_id of the beach_data built of it.
RegionalRows ==
    {[praia_id |-> PyInt(3), nome |-> "Litoral Norte", orientacao |-> PyNone,
      litoral_id |-> PyInt(7)]}

NoMap == <<>>

\* What the bucket may hold under an oceanic key.
OceanicFiles ==
    {EmptyFile, NoDadosFile, EmptyDadosFile,
     File(Date20260301, OneDay(0, OceanShort), NoMap),
     File(Date20260301, OneDay(0, OceanShort), OneDay(0, BeachShort)),
     File(Date20260301, OneDay(1, OceanBadDegree), NoMap)}

\* What the bucket may hold under an atmospheric key.
AtmosphericFiles ==
    {EmptyFile, NoDadosFile,
     File(NoMap, OneDay(0, AtmosShort), NoMap),
     File(NoMap, OneDay(0, AtmosBadWind), NoMap)}

\* datetime.now() on the day of the request.
Nows == {[y |-> 2026, m |-> 3, d |-> 1], [y |-> 2026, m |-> 12, d |-> 25]}

WorkerInit ==
    /\ connection = 0
    /\ db_opens = 0
    /\ s3_client = FALSE
    /\ s3_creates = 0
    /\ requests = 0
    /\ pc = "idle"
    /\ event = NoEvent
    /\ forecast_type = ""
    /\ beach = NoRow
    /\ atmospheric_data = NoneFile
    /\ oceanic_data = NoneFile
    /\ reply = NoResponse
    /\ last_query = NoQuery
    /\ atmos_fetch = ""
    /\ oceanic_fetch = ""
    /\ builds = 0

Init == WorkerInit /\ call = NoCall /\ ret = NoRet

\* params = event.get('queryStringParameters', {}) or {}
param(ev, name) == IF ev.qs THEN ev[name] ELSE PyNone

\* lambda_handler up to the call of the resolver.
Receive(ev) ==
    /\ pc = "idle"
    /\ requests < MaxRequests
    /\ requests' = requests + 1
    /\ event' = ev
    /\ IF ~truthy(param(ev, "praia_id")) /\ ~truthy(param(ev, "coastId"))
       THEN /\ reply' = bad_request
            /\ pc' = "done"
            /\ forecast_type' = ""
       ELSE /\ reply' = NoResponse
            /\ pc' = "resolve"
            /\ forecast_type' = IF truthy(param(ev, "praia_id")) THEN "SURF"
                                ELSE "OCEANIC"
    /\ UNCHANGED <<connection, db_opens, s3_client, s3_creates, beach,
                   atmospheric_data, oceanic_data, last_query, atmos_fetch,
                   oceanic_fetch, builds, call, ret>>

\* The resolver without "if not result: return not_found(...)": the handler
\* goes on to the fetches with whatever the query returned.
Resolve_without_test(outcome, rows) ==
    /\ pc = "resolve"
    /\ outcome = "connect_error" => connection = 0
    /\ LET q == execute_query(connection, db_opens, outcome, rows) IN
       /\ connection' = q.connection
       /\ db_opens' = IF q.opened THEN db_opens + 1 ELSE db_opens
       /\ last_query' = [outcome |-> outcome, opened |-> q.opened,
                         handle_before |-> connection,
                         after_sql_error |-> last_query.outcome = "sql_error",
                         request |-> requests,
                         rows |-> IF q.ret.exc = "" THEN Len(q.ret.val)
                                  ELSE 0]
       /\ IF q.ret.exc # ""
          THEN reply' = server_error /\ pc' = "done" /\ beach' = NoRow
          ELSE /\ reply' = NoResponse
               /\ pc' = "fetch_atmospheric"
               /\ beach' = IF q.ret.val = <<>> THEN NoRow ELSE q.ret.val[1]
    /\ UNCHANGED <<s3_client, s3_creates, requests, event, forecast_type,
                   atmospheric_data, oceanic_data, atmos_fetch, oceanic_fetch,
                   builds, call, ret>>

\* result = execute_query(sql, (id,)) and the test of result; an exception
\* is caught by lambda_handler.
Resolve(outcome, rows) ==
    /\ pc = "resolve"
    /\ outcome = "connect_error" => connection = 0
    /\ LET q == execute_query(connection, db_opens, outcome, rows) IN
       /\ connection' = q.connection
       /\ db_opens' = IF q.opened THEN db_opens + 1 ELSE db_opens
       /\ last_query' = [outcome |-> outcome, opened |-> q.opened,
                         handle_before |-> connection,
                         after_sql_error |-> last_query.outcome = "sql_error",
                         request |-> requests,
                         rows |-> IF q.ret.exc = "" THEN Len(q.ret.val)
                                  ELSE 0]
       /\ IF q.ret.exc # ""
          THEN reply' = server_error /\ pc' = "done" /\ beach' = NoRow
          ELSE IF q.ret.val = <<>>
          THEN reply' = not_found /\ pc' = "done" /\ beach' = NoRow
          ELSE /\ reply' = NoResponse
               /\ pc' = "fetch_atmospheric"
               /\ beach' = q.ret.val[1]
    /\ UNCHANGED <<s3_client, s3_creates, requests, event, forecast_type,
                   atmospheric_data, oceanic_data, atmos_fetch, oceanic_fetch,
                   builds, call, ret>>

\* get_s3_client, as fetch_s3_object calls it.
GetS3Client ==
    /\ s3_client' = TRUE
    /\ s3_creates' = IF s3_client THEN s3_creates ELSE s3_creates + 1

FetchAtmospheric(outcome, file) ==
    /\ pc = "fetch_atmospheric"
    /\ GetS3Client
    /\ atmos_fetch' = outcome
    /\ LET r == try_fetch(outcome, file) IN
       IF r.exc # ""
       THEN reply' = server_error /\ pc' = "done"
            /\ UNCHANGED atmospheric_data
       ELSE atmospheric_data' = r.val /\ pc' = "fetch_oceanic"
            /\ UNCHANGED reply
    /\ UNCHANGED <<connection, db_opens, requests, event, forecast_type, beach,
                   oceanic_data, last_query, oceanic_fetch, builds, call, ret>>

FetchOceanic(outcome, file) ==
    /\ pc = "fetch_oceanic"
    /\ GetS3Client
    /\ oceanic_fetch' = outcome
    /\ LET r == try_fetch(outcome, file) IN
       IF r.exc # ""
       THEN reply' = server_error /\ pc' = "done"
            /\ UNCHANGED oceanic_data
       ELSE oceanic_data' = r.val /\ pc' = "assemble"
            /\ UNCHANGED reply
    /\ UNCHANGED <<connection, db_opens, requests, event, forecast_type, beach,
                   atmospheric_data, last_query, atmos_fetch, builds, call,
                   ret>>

\* The validation and the call of the builder, were they not to wait for
\* the oceanic fetch.
Assemble_without_waiting(now) ==
    /\ pc \in {"fetch_oceanic", "assemble"}
    /\ pc' = "done"
    /\ IF forecast_type = "SURF"
       THEN IF ~surf_has_required_data(oceanic_data)
            THEN reply' = not_found /\ UNCHANGED builds
            ELSE /\ reply' = build_response(beach, "SURF", atmospheric_data,
                                            oceanic_data, now)
                 /\ builds' = builds + 1
       ELSE IF ~regional_has_required_data(atmospheric_data)
            THEN reply' = not_found /\ UNCHANGED builds
            ELSE /\ reply' = build_response(regional_beach_data(beach),
                                            "OCEANIC", atmospheric_data,
                                            oceanic_data, now)
                 /\ builds' = builds + 1
    /\ UNCHANGED <<connection, db_opens, s3_client, s3_creates, requests,
                   event, forecast_type, beach, atmospheric_data, oceanic_data,
                   last_query, atmos_fetch, oceanic_fetch, call, ret>>

\* The validation of the fetched data and the call of the builder, of
\* handle_surf_spot_forecast and of handle_regional_forecast.
Assemble(now) ==
    /\ pc = "assemble"
    /\ pc' = "done"
    /\ IF forecast_type = "SURF"
       THEN IF ~surf_has_required_data(oceanic_data)
            THEN reply' = not_found /\ UNCHANGED builds
            ELSE /\ reply' = build_response(beach, "SURF", atmospheric_data,
                                            oceanic_data, now)
                 /\ builds' = builds + 1
       ELSE IF ~regional_has_required_data(atmospheric_data)
            THEN reply' = not_found /\ UNCHANGED builds
            ELSE /\ reply' = build_response(regional_beach_data(beach),
                                            "OCEANIC", atmospheric_data,
                                            oceanic_data, now)
                 /\ builds' = builds + 1
    /\ UNCHANGED <<connection, db_opens, s3_client, s3_creates, requests,
                   event, forecast_type, beach, atmospheric_data, oceanic_data,
                   last_query, atmos_fetch, oceanic_fetch, call, ret>>

\* lambda_handler returns; the worker waits for the next event.
Return ==
    /\ pc = "done"
    /\ pc' = "idle"
    /\ event' = NoEvent
    /\ forecast_type' = ""
    /\ beach' = NoRow
    /\ atmospheric_data' = NoneFile
    /\ oceanic_data' = NoneFile
    /\ reply' = NoResponse
    /\ atmos_fetch' = ""
    /\ oceanic_fetch' = ""
    /\ builds' = 0
    /\ UNCHANGED <<connection, db_opens, s3_client, s3_creates, requests,
                   last_query, call, ret>>

\* close_connection, between two requests.
CloseConnection ==
    /\ pc = "idle"
    /\ connection # 0
    /\ connection' = 0
    /\ UNCHANGED <<db_opens, s3_client, s3_creates, requests, pc, event,
                   forecast_type, beach, atmospheric_data, oceanic_data, reply,
                   last_query, atmos_fetch, oceanic_fetch, builds, call, ret>>

Next ==
    \/ \E ev \in Events : Receive(ev)
    \/ \E outcome \in QueryOutcomes :
           \E rows \in {<<>>} \cup {<<row>> : row \in
                   IF forecast_type = "SURF" THEN SurfRows ELSE RegionalRows} :
               Resolve(outcome, rows)
    \/ \E outcome \in FetchOutcomes : \E file \in AtmosphericFiles :
           FetchAtmospheric(outcome, file)
    \/ \E outcome \in FetchOutcomes : \E file \in OceanicFiles :
           FetchOceanic(outcome, file)
    \/ \E now \in Nows : Assemble(now)
    \/ Return
    \/ CloseConnection

Spec == Init /\ [][Next]_vars

(***************************************************************************)
(* build_forecast on its own: the arguments are drawn, the builder is      *)
(* called once.                                                            *)
(***************************************************************************)
\* Rows of the resolver, by orientacao.
BuilderRows ==
    {[praia_id |-> PyInt(12), nome |-> "Joaquina", orientacao |-> o,
      litoral_id |-> PyInt(7)] :
        o \in {PyNone, PyInt(0), PyStr(<<>>), PyInt(92), PyInt(200)}}

BuilderAtmosphericFiles ==
    {NoneFile, EmptyFile,
     File(NoMap, AllDays(AtmosFull), NoMap),
     File(NoMap, OneDay(0, AtmosShort), NoMap),
     File(NoMap, OneDay(0, AtmosBadWind), NoMap)}

BuilderOceanicFiles ==
    {NoneFile,
     File(Date20260301, AllDays(OceanShort), NoMap),
     File(Date20260301, OneDay(0, OceanFull), NoMap),
     File(Date20260301, OneDay(0, OceanFull), OneDay(0, BeachFull)),
     File(Date20260301, Mixed(3, <<>>, OceanShort), AllDays(BeachShort)),
     File(Date20260301, OneDay(14, OceanLong), NoMap),
     File(Date20260301, OneDay(2, OceanBadHeight), NoMap),
     File(Date20260301, OneDay(1, OceanBadDegree), NoMap),
     File(DateBadMonth, OneDay(0, OceanShort), NoMap),
     File(NoMap, OneDay(5, OceanShort), NoMap),
     File(Date20260301, OneDay(0, OceanFull), OneDay(0, BeachShort)),
     File(Date20260301, TwoDays(OceanFull), NoMap),
     File(Date20261225, OneDay(7, OceanShort), NoMap),
     File(Date20240220, NoMap, NoMap)}

InitBuild ==
    /\ WorkerInit
    /\ ret = NoRet
    /\ \E row \in BuilderRows, type \in {"SURF", "OCEANIC"},
          atmos \in BuilderAtmosphericFiles, ocean \in BuilderOceanicFiles,
          now \in Nows :
           call = [fn |-> "build_forecast", beach_data |-> row,
                   forecast_type |-> type, atmospheric_data |-> atmos,
                   oceanic_data |-> ocean, now |-> now]

CallBuildForecast ==
    /\ call.fn = "build_forecast"
    /\ ret.fn = ""
    /\ ret' = [fn |-> "build_forecast",
               val |-> build_forecast(call.beach_data, call.forecast_type,
                                      call.atmospheric_data,
                                      call.oceanic_data, call.now)]
    /\ UNCHANGED call
    /\ UNCHANGED worker_vars

NextBuild == CallBuildForecast

SpecBuild == InitBuild /\ [][NextBuild]_vars

(***************************************************************************)
(* The aggregators on their own.                                           *)
(***************************************************************************)
\* Five rows of an oceanic day: height, period, direction, energy, power.
OceanFive ==
    Blob(<<IntRow(<<10, 12, 24>>), IntRow(<<100, 90>>), IntRow(<<7, 8>>),
           IntRow(<<30, 95>>), IntRow(<<15, 9>>)>>)

\* Cells below zero, which int() accepts.
OceanNegative == Blob(<<IntRow(<<-5, -3>>)>>)

\* The day-blobs the aggregators are given; the empty string is a day
\* that is passed over.
MaxBlobs ==
    {<<>>, OceanFive, OceanShort, OceanLong, OceanBadHeight, OceanNegative}

\* 'dados' of a file: empty, or with blobs under v0 and v14, or with a
\* blob under v15, which is beyond the fortnight.
MaxData ==
    {EmptyDados, [date |-> <<>>, v |-> [k \in {15} |-> OceanFive], s |-> <<>>]}
        \cup {[date |-> <<>>, v |-> m, s |-> <<>>] :
                  m \in [{0, NumDays - 1} -> MaxBlobs]}

MaxKeys == {"wave_height", "total_energy", "total_power", "invalid_key"}

InitMax ==
    /\ WorkerInit
    /\ ret = NoRet
    /\ \/ \E data \in MaxData, key \in MaxKeys, divide \in BOOLEAN :
              call = [fn |-> "get_max_value", data |-> data, var_key |-> key,
                      should_divide |-> divide]
       \/ \E data \in MaxData :
              call = [fn |-> "get_max_wind", data |-> data, var_key |-> "",
                      should_divide |-> FALSE]

CallGetMaxValue ==
    /\ call.fn = "get_max_value"
    /\ ret.fn = ""
    /\ ret' = [fn |-> "get_max_value",
               val |-> get_max_value(call.data, call.var_key, "v",
                                     call.should_divide)]
    /\ UNCHANGED call
    /\ UNCHANGED worker_vars

CallGetMaxWind ==
    /\ call.fn = "get_max_wind"
    /\ ret.fn = ""
    /\ ret' = [fn |-> "get_max_wind", val |-> get_max_wind(call.data)]
    /\ UNCHANGED call
    /\ UNCHANGED worker_vars

NextMax == CallGetMaxValue \/ CallGetMaxWind

SpecMax == InitMax /\ [][NextMax]_vars

(***************************************************************************)
(* The tide decoder on its own.                                            *)
(***************************************************************************)
\* The longest tide string drawn: two entries and a trailing character.
MaxTideLen == 13

\* The characters of the tide strings drawn.
TideChars == {"0", "5"}

\* The arguments of parse_tides: None and every string of TideChars up to
\* MaxTideLen characters, the empty one included.
TideStrings ==
    {PyNone} \cup
        {PyStr(s) : s \in UNION {[1..n -> TideChars] : n \in 0..MaxTideLen}}

InitTides ==
    /\ WorkerInit
    /\ ret = NoRet
    /\ \E x \in TideStrings : call = [fn |-> "parse_tides", tides_string |-> x]

\* "not tides_string" holds of None as of ''; the characters of None are
\* none.
CallParseTides ==
    /\ call.fn = "parse_tides"
    /\ ret.fn = ""
    /\ ret' = [fn |-> "parse_tides", val |-> parse_tides(call.tides_string.s)]
    /\ UNCHANGED call
    /\ UNCHANGED worker_vars

NextTides == CallParseTides

SpecTides == InitTides /\ [][NextTides]_vars

(***************************************************************************)
(* The compass on its own.                                                 *)
(***************************************************************************)
\* The number of full turns added to and taken from a bearing.
MaxTurns == 3

\* Texts of cells: empty, no number, nan and inf (which float() accepts),
\* a decimal, integers.
DirectionTexts ==
    {<<>>, <<"a", "b", "c">>, <<"n", "a", "n">>, <<"i", "n", "f">>,
     <<"2", "2", ".", "5">>, <<"2", "7", "0">>, <<"-", "9", "0">>,
     <<"4", "5", "0">>}

DirectionValues ==
    {PyNone} \cup {PyStr(s) : s \in DirectionTexts}
        \cup {PyInt(n) : n \in (-360 * MaxTurns)..(360 * MaxTurns + 360)}

InitDirection ==
    /\ WorkerInit
    /\ ret = NoRet
    /\ \E x \in DirectionValues :
           call = [fn |-> "get_direction", degrees_value |-> x]

CallGetDirection ==
    /\ call.fn = "get_direction"
    /\ ret.fn = ""
    /\ ret' = [fn |-> "get_direction", val |-> get_direction(call.degrees_value)]
    /\ UNCHANGED call
    /\ UNCHANGED worker_vars

NextDirection == CallGetDirection

SpecDirection == InitDirection /\ [][NextDirection]_vars

(***************************************************************************)
(* The wind classifier on its own, called directly and through             *)
(* parse_winds.                                                            *)
(***************************************************************************)
\* The largest bearing drawn.
MaxDegree == 359

Orientations == {PyNone} \cup {PyInt(n) : n \in 0..MaxDegree}

InitWind ==
    /\ WorkerInit
    /\ ret = NoRet
    /\ \/ \E o \in Orientations, w \in Orientations :
              call = [fn |-> "get_wind_type", beach_orientation |-> o,
                      wind_direction |-> w]
       \/ \E o \in Orientations, w \in 0..MaxDegree,
             type \in {"SURF", "OCEANIC"} :
              call = [fn |-> "parse_winds", beach_orientation |-> o,
                      atmospheric_vars |-> <<<<<<"0">>>>, <<IntStr(w)>>>>,
                      forecast_type |-> type]
       \/ \E o \in Orientations, type \in {"SURF", "OCEANIC"} :
              call = [fn |-> "parse_winds", beach_orientation |-> o,
                      atmospheric_vars |-> NoVars, forecast_type |-> type]

CallGetWindType ==
    /\ call.fn = "get_wind_type"
    /\ ret.fn = ""
    /\ ret' = [fn |-> "get_wind_type",
               val |-> get_wind_type(call.beach_orientation,
                                     call.wind_direction)]
    /\ UNCHANGED call
    /\ UNCHANGED worker_vars

\* parse_winds of slot 0 of a day without oceanic rows.
CallParseWinds ==
    /\ call.fn = "parse_winds"
    /\ ret.fn = ""
    /\ ret' = [fn |-> "parse_winds",
               val |-> parse_winds(call.beach_orientation,
                                   call.atmospheric_vars, NoVars,
                                   call.forecast_type, 0)]
    /\ UNCHANGED call
    /\ UNCHANGED worker_vars

NextWind == CallGetWindType \/ CallParseWinds

SpecWind == InitWind /\ [][NextWind]_vars

(***************************************************************************)
(* Properties of build_forecast, under SpecBuild.                          *)
(***************************************************************************)
Built == ret.fn = "build_forecast" /\ ret.val.exc = ""

BuiltDays == ret.val.val.forecast.days

HourLabels ==
    <<<<"0", "0", ":", "0", "0">>, <<"0", "3", ":", "0", "0">>,
      <<"0", "6", ":", "0", "0">>, <<"0", "9", ":", "0", "0">>,
      <<"1", "2", ":", "0", "0">>, <<"1", "5", ":", "0", "0">>,
      <<"1", "8", ":", "0", "0">>, <<"2", "1", ":", "0", "0">>>>

\* C1: every response build_forecast assembles has exactly 15 days, and
\* every day of it that is not empty has exactly 8 hours, labelled 00:00,
\* 03:00, ..., 21:00 in this order.
C1_FifteenDaysEightHours ==
    Built =>
        /\ Len(BuiltDays) = 15
        /\ \A d \in 1..Len(BuiltDays) :
               \/ Len(BuiltDays[d].hours) = 0
               \/ /\ Len(BuiltDays[d].hours) = 8
                  /\ \A k \in 1..8 : BuiltDays[d].hours[k].hour = HourLabels[k]

\* A response with a day of 8 hours and an empty day.
C1_Witness ==
    /\ Built
    /\ \E d \in 1..Len(BuiltDays) : Len(BuiltDays[d].hours) = 8
    /\ \E d \in 1..Len(BuiltDays) : Len(BuiltDays[d].hours) = 0

\* The hours of all days of the response.
BuiltHours ==
    UNION {{BuiltDays[d].hours[k] : k \in 1..Len(BuiltDays[d].hours)} :
              d \in 1..Len(BuiltDays)}

\* The tenths of every waves.totalHeight.value of the response.
TotalHeights == {h.waves.totalHeight.value.num : h \in BuiltHours}

\* C2: forecast.maxHeight is the maximum of waves.totalHeight.value over
\* all days and slots, with or without overlay rows and whatever the number
\* of cells of a row.
C2_MaxHeightIsMaxOfTotalHeights ==
    (Built /\ TotalHeights # {}) =>
        /\ ret.val.val.forecast.maxHeight.num \in TotalHeights
        /\ \A n \in TotalHeights : n <= ret.val.val.forecast.maxHeight.num

\* The call is a SURF one without atmospheric file and with an oceanic file
\* all of whose cells are integers.
ValidOceanicFiles ==
    {File(Date20260301, AllDays(OceanShort), NoMap),
     File(Date20260301, OneDay(0, OceanFull), NoMap),
     File(Date20260301, OneDay(0, OceanFull), OneDay(0, BeachFull)),
     File(Date20260301, OneDay(14, OceanLong), NoMap)}

SurfWithoutAtmosphere ==
    /\ call.fn = "build_forecast"
    /\ ret.fn = "build_forecast"
    /\ call.forecast_type = "SURF"
    /\ call.atmospheric_data = NoneFile
    /\ call.oceanic_data \in ValidOceanicFiles

\* C3: without atmospheric file a SURF response is built for every
\* orientation, with maxWind 0 and, in every hour, coast wind, gust and
\* directionDegree 0 and the coast type OCEANIC.
C3_NoAtmosphereGivesOceanicWinds ==
    SurfWithoutAtmosphere =>
        /\ ret.val.exc = ""
        /\ ret.val.val.forecast.maxWind = 0
        /\ \A h \in BuiltHours :
               /\ h.winds.coast.wind = 0
               /\ h.winds.coast.windGust = 0
               /\ h.winds.coast.directionDegree = 0
               /\ h.winds.coast.type = "OCEANIC"

\* C6: a cell that is no integer never makes build_forecast fail: the call
\* completes whatever the cells of the files are.
C6_NonIntegerCellsNeverFail ==
    ret.fn = "build_forecast" => ret.val.exc = ""

(***************************************************************************)
(* Properties of the wind classifier, under SpecWind.                      *)
(***************************************************************************)
\* C4: in SURF mode, with an orientation and an integer wind-direction cell
\* in the atmospheric matrix, the coast type parse_winds gives is ONSHORE,
\* OFFSHORE or CROSSED; it is OCEANIC only in OCEANIC mode or when an input
\* is absent.
C4_SurfWindTypeIsClassified ==
    ret.fn = "parse_winds" =>
        /\ (/\ call.forecast_type = "SURF"
            /\ call.beach_orientation.t = "int"
            /\ call.atmospheric_vars # NoVars)
           => ret.val.val.coast.type \in {"ONSHORE", "OFFSHORE", "CROSSED"}
        /\ ret.val.val.coast.type = "OCEANIC"
           => \/ call.forecast_type = "OCEANIC"
              \/ call.beach_orientation.t = "None"
              \/ call.atmospheric_vars = NoVars

\* C5: get_wind_type gives the same type when a full turn is added to the
\* orientation or to the wind direction.
C5_WindTypeIsPeriodic ==
    (/\ ret.fn = "get_wind_type"
     /\ call.beach_orientation.t = "int"
     /\ call.wind_direction.t = "int") =>
        /\ ret.val = get_wind_type(PyInt(call.beach_orientation.i + 360),
                                   call.wind_direction)
        /\ ret.val = get_wind_type(call.beach_orientation,
                                   PyInt(call.wind_direction.i + 360))

\* C20: for an integer orientation o and wind bearing w with |o - w| <=
\* 180, get_wind_type(o, w) is OFFSHORE when |o - w| > 125, CROSSED when
\* 66 <= |o - w| <= 125 and ONSHORE when |o - w| <= 65; when either
\* argument is None it is OCEANIC.
C20_WindTypeThresholds ==
    ret.fn = "get_wind_type" =>
        /\ (call.beach_orientation.t = "None"
            \/ call.wind_direction.t = "None") => ret.val = "OCEANIC"
        /\ (/\ call.beach_orientation.t = "int"
            /\ call.wind_direction.t = "int"
            /\ call.beach_orientation.i - call.wind_direction.i \in -180..180)
           => ret.val =
                  IF call.beach_orientation.i - call.wind_direction.i
                         \in (-180..-126) \cup (126..180)
                  THEN "OFFSHORE"
                  ELSE IF call.beach_orientation.i - call.wind_direction.i
                              \in (-125..-66) \cup (66..125)
                  THEN "CROSSED"
                  ELSE "ONSHORE"
        /\ (call.beach_orientation = PyInt(90)
            /\ call.wind_direction = PyInt(270)) => ret.val = "OFFSHORE"
        /\ (call.beach_orientation = PyInt(0)
            /\ call.wind_direction = PyInt(180)) => ret.val = "OFFSHORE"
        /\ (call.beach_orientation = call.wind_direction
            /\ call.wind_direction.t = "int") => ret.val = "ONSHORE"

\* A wind 125 degrees off the orientation, the largest angle that is
\* CROSSED.
C20_Witness ==
    /\ ret.fn = "get_wind_type"
    /\ call.beach_orientation = PyInt(200)
    /\ call.wind_direction = PyInt(75)
    /\ ret.val = "CROSSED"

(***************************************************************************)
(* Properties of the worker, under Spec.                                   *)
(***************************************************************************)
\* The fetch ended with an error that is not "no such key".
FetchFailed(outcome) == outcome \in {"ClientError", "Exception"}

\* The request in progress has ended and its spot had resolved.
DoneResolved == pc = "done" /\ beach # NoRow

\* The file is None, {}, without 'dados', or its 'dados' is empty.
Unusable(file) == file.kind # "dados" \/ file.dados = EmptyDados

C8_SurfWithoutOceanicIs404 ==
    (DoneResolved /\ forecast_type = "SURF" /\ Unusable(oceanic_data))
        => reply.statusCode = 404 /\ builds = 0

\* A surf request with an atmospheric file and an oceanic file without
\* 'dados'.
C8_Witness ==
    /\ DoneResolved
    /\ forecast_type = "SURF"
    /\ oceanic_data.kind = "nodados"
    /\ atmospheric_data.kind = "dados"
    /\ reply.statusCode = 404

\* C9: a regional request that resolved ends 404 when the atmospheric file
\* is missing or without 'dados', and otherwise 200 with type OCEANIC, even
\* when the regional oceanic file is missing.
C9_RegionalNeedsAtmosphereOnly ==
    (DoneResolved /\ forecast_type = "OCEANIC") =>
        IF Unusable(atmospheric_data) THEN reply.statusCode = 404
        ELSE reply.statusCode = 200 /\ reply.body.type = "OCEANIC"

\* C10: after a call of execute_query that fails with a SQL error the
\* handle is None and the request that made it ends 500; the call after it
\* finds no handle and opens a connection before its statement.
C10_SqlErrorResetsConnection ==
    /\ last_query.outcome = "sql_error" => connection = 0
    /\ (pc = "done" /\ last_query.outcome = "sql_error"
            /\ last_query.request = requests) => reply.statusCode = 500
    /\ last_query.after_sql_error =>
           /\ last_query.handle_before = 0
           /\ last_query.opened \/ last_query.outcome = "connect_error"

\* A query that returned rows over the second connection, opened after
\* the SQL error of the query before.
C10_Witness ==
    /\ last_query.after_sql_error
    /\ last_query.opened
    /\ last_query.outcome = "rows"
    /\ connection = 2

\* The event names no spot: no query string, or praia_id and coastId
\* both absent or empty.
Absent(v) == v = PyNone \/ v = PyStr(<<>>)

NamesNoSpot(ev) == ~ev.qs \/ (Absent(ev.praia_id) /\ Absent(ev.coastId))

\* No query and no fetch has been issued for the request in progress.
NothingIssued ==
    /\ last_query.request # requests
    /\ atmos_fetch = ""
    /\ oceanic_fetch = ""
    /\ builds = 0

\* C23: a request that carries neither praia_id nor coastId (absent, empty
\* or no query string at all) returns 400 BadRequest, and no query and no
\* blob fetch is issued for it.
C23_NoSpotIs400 ==
    (pc # "idle" /\ NamesNoSpot(event)) =>
        /\ pc = "done"
        /\ reply.statusCode = 400
        /\ reply.body.error = "BadRequest"
        /\ NothingIssued

\* The second request of a worker came with an empty praia_id, after a
\* first request that was resolved by a query.
C23_Witness ==
    /\ pc = "done"
    /\ requests = 2
    /\ event.qs
    /\ event.praia_id = PyStr(<<>>)
    /\ last_query.request = 1
    /\ reply.statusCode = 400

\* The resolver of the request in progress returned no row.
ZeroRows ==
    /\ last_query.request = requests
    /\ last_query.outcome = "rows"
    /\ last_query.rows = 0

\* C24: when the resolver returns no row the request returns 404 NotFound
\* and no blob is fetched; blobs are fetched only after a row has been
\* resolved.
C24_ZeroRowsIs404 ==
    /\ (pc # "idle" /\ ZeroRows) =>
           /\ pc = "done"
           /\ reply.statusCode = 404
           /\ reply.body.error = "NotFound"
           /\ atmos_fetch = ""
           /\ oceanic_fetch = ""
           /\ builds = 0
    /\ (atmos_fetch # "" \/ oceanic_fetch # "") =>
           /\ last_query.request = requests
           /\ last_query.outcome = "rows"
           /\ last_query.rows = 1
           /\ beach # NoRow

\* A regional request whose coastId is in no row of locais.
C24_Witness ==
    /\ pc = "done"
    /\ forecast_type = "OCEANIC"
    /\ ZeroRows
    /\ reply.statusCode = 404

\* The resolver of the request in progress raised.
ResolverRaised ==
    /\ last_query.request = requests
    /\ last_query.outcome \in {"connect_error", "sql_error", "other_error"}

\* C27: lambda_handler is total: whatever the event and whatever fails, the
\* resolver, a fetch or the builder, it returns a response with status 200,
\* 400, 404 or 500 and does not raise; an exception of the resolver query
\* is answered 500 ServerError.
C27_HandlerIsTotal ==
    /\ pc = "done" =>
           /\ reply.statusCode \in {200, 400, 404, 500}
           /\ reply.statusCode # 200 =>
                  reply.body.error \in {"BadRequest", "NotFound", "ServerError"}
    /\ pc \in {"idle", "resolve", "fetch_atmospheric", "fetch_oceanic",
               "assemble"} => reply = NoResponse
    /\ (pc # "idle" /\ ResolverRaised) =>
           /\ pc = "done"
           /\ reply.statusCode = 500
           /\ reply.body.error = "ServerError"
           /\ atmos_fetch = "" /\ oceanic_fetch = "" /\ builds = 0
    /\ (pc = "done" /\ builds = 1) => reply.statusCode \in {200, 500}

\* A request whose resolver failed with an exception that is no SQL error.
C27_Witness ==
    /\ pc = "done"
    /\ ResolverRaised
    /\ last_query.outcome = "other_error"
    /\ reply.statusCode = 500

\* A step that runs a query that succeeds.
QuerySucceeds ==
    /\ pc = "resolve"
    /\ pc' # "resolve"
    /\ last_query'.outcome = "rows"

\* What a step does to the connection and to the S3 client.
HandlesAreCached ==
    /\ db_opens' # db_opens =>
           /\ connection = 0
           /\ db_opens' = db_opens + 1
    /\ (QuerySucceeds /\ connection # 0) => connection' = connection
    /\ (QuerySucceeds /\ connection = 0) => connection' # 0
    /\ s3_creates' # s3_creates =>
           /\ ~s3_client
           /\ s3_client'
           /\ s3_creates' = s3_creates + 1
    /\ s3_client => s3_client'
    /\ s3_creates' <= 1

\* C28: over the requests of one worker a connection is opened only when
\* the cached handle is None, and a query that succeeds leaves the handle
\* as it is, so that successive queries that succeed use one connection;
\* the S3 client is created at most once and never invalidated.
C28_HandlesAreReused == [][HandlesAreCached]_vars

\* The second request of a worker, resolved over the connection of the
\* first and fetching with the client of the first.
C28_Witness ==
    /\ requests = 2
    /\ pc = "fetch_oceanic"
    /\ last_query.request = 2
    /\ last_query.outcome = "rows"
    /\ ~last_query.opened
    /\ last_query.handle_before = 1
    /\ connection = 1
    /\ db_opens = 1
    /\ s3_creates = 1

\* C29: within one request the steps go resolve, atmospheric fetch,
\* oceanic fetch, validation, assembly: build_forecast is called at most
\* once, and only after the spot has resolved, both fetches have ended (in
\* a value, in None or in a failure) and the validation has passed.
C29_StepsAreOrdered ==
    /\ builds <= 1
    /\ builds = 1 =>
           /\ pc = "done"
           /\ beach # NoRow
           /\ atmos_fetch # ""
           /\ oceanic_fetch # ""
           /\ IF forecast_type = "SURF" THEN ~Unusable(oceanic_data)
              ELSE ~Unusable(atmospheric_data)
    /\ pc \in {"fetch_atmospheric", "fetch_oceanic", "assemble"} =>
           /\ last_query.request = requests
           /\ last_query.outcome = "rows"
           /\ beach # NoRow
           /\ builds = 0
    /\ pc = "fetch_atmospheric" => atmos_fetch = "" /\ oceanic_fetch = ""
    /\ pc = "fetch_oceanic" => atmos_fetch # "" /\ oceanic_fetch = ""
    /\ pc = "assemble" => atmos_fetch # "" /\ oceanic_fetch # ""
    /\ pc \in {"idle", "resolve"} =>
           atmos_fetch = "" /\ oceanic_fetch = "" /\ builds = 0

\* A regional request answered by the builder after an atmospheric fetch
\* that returned a file and an oceanic fetch that failed.
C29_Witness ==
    /\ pc = "done"
    /\ forecast_type = "OCEANIC"
    /\ builds = 1
    /\ atmos_fetch = "ok"
    /\ oceanic_fetch = "ClientError"
    /\ reply.statusCode = 200

(***************************************************************************)
(* Properties of the overlay, the tides and the dates, under SpecBuild.    *)
(***************************************************************************)
\* The matrices of day N of the oceanic file of the call.
OverlayOf(N) ==
    parse_day_variables(day_string(dados_of(call.oceanic_data), "s", N))

OceanicOf(N) ==
    parse_day_variables(day_string(dados_of(call.oceanic_data), "v", N))

\* The cell of a row at a slot exists and is an integer text.
HasInt(matrix, row, slot) ==
    /\ row + 1 <= Len(matrix)
    /\ slot + 1 <= Len(matrix[row + 1])
    /\ IsIntText(matrix[row + 1][slot + 1])

CellInt(matrix, row, slot) == IntOfText(matrix[row + 1][slot + 1])

\* The channels of waves: the overlay row of the height and the oceanic
\* rows of the height and of the other fields.
Channels ==
    {[name |-> "totalHeight", overlay |-> 0, height |-> 0, period |-> 1,
      direction |-> 2, energy |-> 3, power |-> 4],
     [name |-> "windseas", overlay |-> 1, height |-> 5, period |-> 6,
      direction |-> 7, energy |-> 8, power |-> 9],
     [name |-> "swellA", overlay |-> 2, height |-> 10, period |-> 11,
      direction |-> 12, energy |-> 13, power |-> 14],
     [name |-> "swellB", overlay |-> 3, height |-> 15, period |-> 16,
      direction |-> 17, energy |-> 18, power |-> 19]}

\* The days of the call that have an overlay and an oceanic matrix.
OverlaidDays == {N \in Days : OverlayOf(N) # NoVars /\ OceanicOf(N) # NoVars}

\* The waves of the hours of a day are those of the claim for the overlay
\* and the oceanic matrix of the day.
OverlaidWaves(hours, overlay, oceanic) ==
    \A k \in 0..7, ch \in Channels :
        /\ HasInt(overlay, ch.overlay, k) =>
               hours[k + 1].waves[ch.name].value
                   = Scaled(CellInt(overlay, ch.overlay, k))
        /\ HasInt(oceanic, ch.period, k) =>
               hours[k + 1].waves[ch.name].period
                   = Scaled(CellInt(oceanic, ch.period, k))
        /\ HasInt(oceanic, ch.direction, k) =>
               /\ hours[k + 1].waves[ch.name].directionDegree
                      = CellInt(oceanic, ch.direction, k)
               /\ hours[k + 1].waves[ch.name].direction
                      = get_direction(PyInt(CellInt(oceanic, ch.direction,
                                                    k))).val
        /\ HasInt(oceanic, ch.power, k) =>
               hours[k + 1].waves[ch.name].power
                   = Scaled(CellInt(oceanic, ch.power, k))
        /\ HasInt(oceanic, ch.energy, k) =>
               hours[k + 1].waves[ch.name].energy
                   = CellInt(oceanic, ch.energy, k)

\* C11: on a day with an overlay, the value of every channel at every slot
\* is the cell of the overlay row of the channel (0, 1, 2, 3) divided by
\* 10, and period, directionDegree, power and energy of the channel are
\* the cells of the oceanic rows of the channel.
C11_OverlayGivesHeightsOnly ==
    Built =>
        \A N \in OverlaidDays :
            OverlaidWaves(BuiltDays[N + 1].hours, OverlayOf(N), OceanicOf(N))

\* The response for the full oceanic day with the full overlay: at slot 0
\* the total height is the overlay's 1.2, not the oceanic 1.5, and the
\* period the oceanic 1.0.
C11_Witness ==
    /\ Built
    /\ call.oceanic_data
           = File(Date20260301, OneDay(0, OceanFull), OneDay(0, BeachFull))
    /\ BuiltDays[1].hours[1].waves.totalHeight.value = Scaled(12)
    /\ BuiltDays[1].hours[1].waves.totalHeight.period = Scaled(10)
    /\ BuiltDays[1].hours[1].waves.swellB.value = Scaled(4)

\* The heights of channels whose overlay row is missing are the cells of
\* the oceanic height rows of the channels.
MissingRowsFallThrough(hours, overlay, oceanic) ==
    \A k \in 0..7, ch \in Channels :
        (ch.overlay + 1 > Len(overlay) /\ HasInt(oceanic, ch.height, k)) =>
            hours[k + 1].waves[ch.name].value
                = Scaled(CellInt(oceanic, ch.height, k))

\* C12: on a day with an overlay of fewer than 4 rows, the value of a
\* channel whose overlay row is missing is the cell of the oceanic height
\* row of the channel divided by 10, not 0.
C12_MissingOverlayRowFallsThrough ==
    Built =>
        \A N \in OverlaidDays :
            MissingRowsFallThrough(BuiltDays[N + 1].hours, OverlayOf(N),
                                   OceanicOf(N))

\* The tides decoded from slot 0 of row 23 of a matrix, none without the
\* row.
TidesOfRow23(oceanic) ==
    IF Len(oceanic) >= 24 THEN parse_tides(oceanic[24][1]) ELSE <<>>

\* C13: in every response the tides of days 1..14 are empty, whatever
\* row 23 of their blobs holds, and the tides of day 0 are the decoding of
\* slot 0 of row 23 of v0.
C13_TidesOnDayZeroOnly ==
    Built =>
        /\ \A N \in 1..14 : BuiltDays[N + 1].tides = <<>>
        /\ BuiltDays[1].tides = TidesOfRow23(OceanicOf(0))

\* The response for a file whose v0 and v1 both carry the tide string
\* "050015113008" in row 23: two tides on day 0, none on day 1, which has
\* its 8 hours.
C13_Witness ==
    /\ Built
    /\ call.oceanic_data = File(Date20260301, TwoDays(OceanFull), NoMap)
    /\ BuiltDays[1].tides
           = <<[time |-> <<"0", "5", ":", "0", "0">>,
                height |-> <<"1", ".", "5">>],
               [time |-> <<"1", "1", ":", "3", "0">>,
                height |-> <<"0", ".", "8">>]>>
    /\ Len(BuiltDays[2].hours) = 8
    /\ BuiltDays[2].tides = <<>>

\* The number of a day of the proleptic Gregorian calendar, consecutive
\* days having consecutive numbers.
DayNumber(y, m, d) ==
    d + (153 * (m + 12 * ((14 - m) \div 12) - 3) + 2) \div 5
      + 365 * (y + 4800 - (14 - m) \div 12)
      + (y + 4800 - (14 - m) \div 12) \div 4
      - (y + 4800 - (14 - m) \div 12) \div 100
      + (y + 4800 - (14 - m) \div 12) \div 400

\* y-m-d is a date of the calendar.
IsCalendarDate(y, m, d) ==
    /\ y >= 1
    /\ m \in 1..12
    /\ d >= 1
    /\ DayNumber(y, m, d)
           < (IF m = 12 THEN DayNumber(y + 1, 1, 1)
              ELSE DayNumber(y, m + 1, 1))

\* The number a field of 'dados' carries, as a JSON number or as digits.
FieldNumber(x) ==
    IF x.t = "int" THEN x.i ELSE IF AllDigits(x.s) THEN NatOf(x.s) ELSE 0

\* The oceanic file of the call carries ano, mes and dia, and they are a
\* date of the calendar.
CarriesValidDate ==
    /\ DOMAIN dados_of(call.oceanic_data).date = {"ano", "mes", "dia"}
    /\ IsCalendarDate(FieldNumber(dados_of(call.oceanic_data).date.ano),
                      FieldNumber(dados_of(call.oceanic_data).date.mes),
                      FieldNumber(dados_of(call.oceanic_data).date.dia))

\* The number of day 0: of the date the file carries, of today without it.
BaseDayNumber ==
    IF CarriesValidDate
    THEN DayNumber(FieldNumber(dados_of(call.oceanic_data).date.ano),
                   FieldNumber(dados_of(call.oceanic_data).date.mes),
                   FieldNumber(dados_of(call.oceanic_data).date.dia))
    ELSE DayNumber(call.now.y, call.now.m, call.now.d)

\* text is YYYY-MM-DD, zero-padded, and the date of the day numbered n.
IsDateText(text, n) ==
    /\ Len(text) = 10
    /\ text[5] = "-"
    /\ text[8] = "-"
    /\ AllDigits(SubSeq(text, 1, 4))
    /\ AllDigits(SubSeq(text, 6, 7))
    /\ AllDigits(SubSeq(text, 9, 10))
    /\ IsCalendarDate(NatOf(SubSeq(text, 1, 4)), NatOf(SubSeq(text, 6, 7)),
                      NatOf(SubSeq(text, 9, 10)))
    /\ DayNumber(NatOf(SubSeq(text, 1, 4)), NatOf(SubSeq(text, 6, 7)),
                 NatOf(SubSeq(text, 9, 10))) = n

\* C19: when the oceanic file carries a valid ano / mes / dia, the day of
\* days[N] is that date plus N calendar days, for every N in 0..14, as
\* zero-padded YYYY-MM-DD, months and years rolling over; 2026-03-01
\* gives 2026-03-15 on day 14.
C19_DayIsBaseDatePlusN ==
    (Built /\ CarriesValidDate) =>
        /\ \A N \in Days : IsDateText(BuiltDays[N + 1].day, BaseDayNumber + N)
        /\ dados_of(call.oceanic_data).date = Date20260301 =>
               BuiltDays[15].day
                   = <<"2", "0", "2", "6", "-", "0", "3", "-", "1", "5">>

\* The response for a file dated 2026-12-25 with a blob on day 7 only:
\* day 7 is the first day of 2027 and has its 8 hours.
C19_Witness ==
    /\ Built
    /\ CarriesValidDate
    /\ dados_of(call.oceanic_data).date = Date20261225
    /\ BuiltDays[8].day = <<"2", "0", "2", "7", "-", "0", "1", "-", "0", "1">>
    /\ Len(BuiltDays[8].hours) = 8

\* The oceanic file with blob under the key v<N>.
FillDay(file, N, blob) ==
    File(file.dados.date,
         [k \in DOMAIN file.dados.v \cup {N} |->
              IF k = N THEN blob ELSE file.dados.v[k]],
         file.dados.s)

\* The days parse_days gives when day N of the oceanic file of the call
\* has the blob OceanShort.
DaysWithDayFilled(N) ==
    parse_days(call.atmospheric_data,
               FillDay(call.oceanic_data, N, OceanShort),
               beach_orientation_of(call.beach_data.orientacao,
                                    py_int(call.beach_data.orientacao)),
               call.forecast_type, call.now)

\* The days other than N of the response are those of filled.
OtherDaysAre(N, filled) ==
    filled.exc = "" =>
        \A M \in Days \ {N} : BuiltDays[M + 1] = filled.val[M + 1]

\* The days of the call whose v<N> is absent or empty, and the first one.
EmptyDays == {N \in Days : OceanicOf(N) = NoVars}

FirstEmptyDay == CHOOSE N \in EmptyDays : \A M \in EmptyDays : N <= M

\* C18: for each N in 0..14, when v<N> of the oceanic file is absent or
\* empty, days[N] is exactly {day: the date of day N, hours: [], tides:
\* []}, still at position N of the 15 days; the other days are what they
\* are when the first such day holds a blob.
C18_EmptyDayIsEmitted ==
    Built =>
        /\ Len(BuiltDays) = 15
        /\ \A N \in EmptyDays :
               /\ DOMAIN BuiltDays[N + 1] = {"day", "hours", "tides"}
               /\ IsDateText(BuiltDays[N + 1].day, BaseDayNumber + N)
               /\ BuiltDays[N + 1].hours = <<>>
               /\ BuiltDays[N + 1].tides = <<>>
        /\ EmptyDays # {} =>
               OtherDaysAre(FirstEmptyDay, DaysWithDayFilled(FirstEmptyDay))

\* The response for a file whose v3 is the empty string between days with
\* blobs: day 3 is the empty day of 2026-03-04, days 2 and 4 have 8 hours.
C18_Witness ==
    /\ Built
    /\ call.oceanic_data
           = File(Date20260301, Mixed(3, <<>>, OceanShort), AllDays(BeachShort))
    /\ BuiltDays[4]
           = [day |-> <<"2", "0", "2", "6", "-", "0", "3", "-", "0", "4">>,
              hours |-> <<>>, tides |-> <<>>]
    /\ Len(BuiltDays[3].hours) = 8
    /\ Len(BuiltDays[5].hours) = 8

\* The sea wind of every hour is that of slot 0 of the rows 20 and 21 of
\* the oceanic matrix of the day.
SeaWindOfSlotZero(hours, oceanic) ==
    \A k \in 1..Len(hours) :
        /\ hours[k].winds.sea = hours[1].winds.sea
        /\ DOMAIN hours[k].winds.sea = {"direction", "wind"}
        /\ HasInt(oceanic, 20, 0) =>
               hours[k].winds.sea.wind = CellInt(oceanic, 20, 0)
        /\ HasInt(oceanic, 21, 0) =>
               hours[k].winds.sea.direction = CellInt(oceanic, 21, 0)

\* C22: within a day that is not empty all 8 hours carry the same
\* winds.sea: its wind and direction are the integers of the oceanic rows
\* 20 and 21 at slot 0 of the day, whatever the slot of the hour.
C22_SeaWindIsSlotZero ==
    Built =>
        \A N \in Days : SeaWindOfSlotZero(BuiltDays[N + 1].hours, OceanicOf(N))

\* The response for the full oceanic day: the hour 21:00 carries the sea
\* wind 10 from 220 of slot 0, not the 17 from 255 of its own slot.
C22_Witness ==
    /\ Built
    /\ call.oceanic_data = File(Date20260301, OneDay(0, OceanFull), NoMap)
    /\ Len(BuiltDays[1].hours) = 8
    /\ BuiltDays[1].hours[8].winds.sea = [direction |-> 220, wind |-> 10]

\* The atmospheric matrix of day N of the call.
AtmosphericOf(N) ==
    parse_day_variables(day_string(dados_of(call.atmospheric_data), "v", N))

\* The matrix has no cell at the slot of the row.
Missing(matrix, row, slot) ==
    \/ row + 1 > Len(matrix)
    \/ slot + 1 > Len(matrix[row + 1])

\* Every cell of the matrix is an integer text.
AllIntegers(matrix) ==
    \A r \in 1..Len(matrix) : \A c \in 1..Len(matrix[r]) :
        IsIntText(matrix[r][c])

\* The matrix the height of a channel is read from.
HeightMatrix(overlay, oceanic) == IF overlay # NoVars THEN overlay ELSE oceanic

HeightRow(overlay, ch) == IF overlay # NoVars THEN ch.overlay ELSE ch.height

\* The fields of waves read from a cell that is missing are 0.
WavesDefault(waves, overlay, oceanic, k) ==
    \A ch \in Channels :
        /\ Missing(HeightMatrix(overlay, oceanic), HeightRow(overlay, ch), k)
               => waves[ch.name].value = Scaled(0)
        /\ Missing(oceanic, ch.period, k)
               => waves[ch.name].period = Scaled(0)
        /\ Missing(oceanic, ch.power, k)
               => waves[ch.name].power = Scaled(0)
        /\ Missing(oceanic, ch.energy, k)
               => waves[ch.name].energy = 0
        /\ Missing(oceanic, ch.direction, k)
               => waves[ch.name].directionDegree = 0

\* The fields of winds read from a cell that is missing are 0; the
\* pressure of winds.coast, which is the text of the cell, is "0".
WindsDefault(winds, atmospheric, oceanic, k) ==
    /\ Missing(atmospheric, WIND_VARIABLES.wind_direction, k)
           => winds.coast.directionDegree = 0
    /\ Missing(atmospheric, WIND_VARIABLES.wind, k)
           => winds.coast.wind = 0
    /\ Missing(atmospheric, WIND_VARIABLES.wind_gust, k)
           => winds.coast.windGust = 0
    /\ Missing(atmospheric, ATMOSPHERIC_VARIABLES.pressure, k)
           => winds.coast.pressure = <<"0">>
    /\ Missing(oceanic, OCEAN_VARIABLES.sea_wind, 0)
           => winds.sea.wind = 0
    /\ Missing(oceanic, OCEAN_VARIABLES.sea_wind_direction, 0)
           => winds.sea.direction = 0

\* The fields of atmospheric read from a cell that is missing are 0.
AtmosphericDefault(atmospheric, matrix, k) ==
    /\ Missing(matrix, ATMOSPHERIC_VARIABLES.pressure, k)
           => atmospheric.pressure = 0
    /\ Missing(matrix, ATMOSPHERIC_VARIABLES.temperature, k)
           => atmospheric.temperature = 0
    /\ Missing(matrix, ATMOSPHERIC_VARIABLES.clouds, k)
           => atmospheric.clouds = 0
    /\ Missing(matrix, ATMOSPHERIC_VARIABLES.precipitation, k)
           => atmospheric.precipitation = 0
    /\ Missing(matrix, ATMOSPHERIC_VARIABLES.storm_potential, k)
           => atmospheric.stormPotential = 0

\* The day has 8 hours, and every field of them read from a missing cell
\* has its default.
SlotSafe(hours, overlay, oceanic, atmospheric) ==
    /\ Len(hours) = 8
    /\ \A k \in 0..7 :
           /\ WavesDefault(hours[k + 1].waves, overlay, oceanic, k)
           /\ WindsDefault(hours[k + 1].winds, atmospheric, oceanic, k)
           /\ AtmosphericDefault(hours[k + 1].atmospheric, atmospheric, k)

\* The days of the call that have an oceanic matrix.
OceanicDays == {N \in Days : OceanicOf(N) # NoVars}

\* Every cell of the oceanic and of the atmospheric matrices of the call is
\* an integer text.
CellsAreIntegers ==
    \A N \in OceanicDays :
        AllIntegers(OceanicOf(N)) /\ AllIntegers(AtmosphericOf(N))

\* C25: a day whose oceanic, overlay or atmospheric rows have fewer than 8
\* cells, or whose matrix has fewer rows than the one read, still has 8
\* hours, and every field read from a missing row or slot is 0 (0.0 when
\* scaled); the call does not fail when the cells there are are integers.
C25_MissingCellsTakeDefault ==
    /\ (ret.fn = "build_forecast" /\ CellsAreIntegers) => ret.val.exc = ""
    /\ Built =>
           \A N \in OceanicDays :
               SlotSafe(BuiltDays[N + 1].hours, OverlayOf(N), OceanicOf(N),
                        AtmosphericOf(N))

\* The response for short oceanic, overlay and atmospheric matrices: at
\* 00:00 the period is the 1.0 of the oceanic row; at 03:00 the total
\* height is 0.0, the overlay having one cell, the period 0.0, the wind the
\* 12 of the atmospheric row and its direction 0; at 06:00 the wind is 0.
C25_Witness ==
    /\ Built
    /\ call.oceanic_data
           = File(Date20260301, Mixed(3, <<>>, OceanShort), AllDays(BeachShort))
    /\ call.atmospheric_data = File(NoMap, OneDay(0, AtmosShort), NoMap)
    /\ Len(BuiltDays[1].hours) = 8
    /\ BuiltDays[1].hours[1].waves.totalHeight.period = Scaled(10)
    /\ BuiltDays[1].hours[2].waves.totalHeight.value = Scaled(0)
    /\ BuiltDays[1].hours[2].waves.totalHeight.period = Scaled(0)
    /\ BuiltDays[1].hours[2].winds.coast.wind = 12
    /\ BuiltDays[1].hours[2].winds.coast.directionDegree = 0
    /\ BuiltDays[1].hours[3].winds.coast.wind = 0
    /\ BuiltDays[1].hours[3].atmospheric.temperature = 0

\* n / 10
Tenths(n) == [num |-> n, den |-> 10]

\* value, period and power of every channel are the tenth of their cell,
\* energy and directionDegree their cell as it is.
ScaledWaves(hours, overlay, oceanic) ==
    \A k \in 0..7, ch \in Channels :
        /\ HasInt(HeightMatrix(overlay, oceanic), HeightRow(overlay, ch), k)
               => hours[k + 1].waves[ch.name].value
                      = Tenths(CellInt(HeightMatrix(overlay, oceanic),
                                       HeightRow(overlay, ch), k))
        /\ HasInt(oceanic, ch.period, k)
               => hours[k + 1].waves[ch.name].period
                      = Tenths(CellInt(oceanic, ch.period, k))
        /\ HasInt(oceanic, ch.power, k)
               => hours[k + 1].waves[ch.name].power
                      = Tenths(CellInt(oceanic, ch.power, k))
        /\ HasInt(oceanic, ch.energy, k)
               => hours[k + 1].waves[ch.name].energy
                      = CellInt(oceanic, ch.energy, k)
        /\ HasInt(oceanic, ch.direction, k)
               => hours[k + 1].waves[ch.name].directionDegree
                      = CellInt(oceanic, ch.direction, k)

\* C26: for each of the four wave channels at every slot, value, period
\* and power are their integer cell divided by 10, and energy and
\* directionDegree their integer cell unscaled.
C26_ScalingIsPerField ==
    Built =>
        \A N \in OceanicDays :
            ScaledWaves(BuiltDays[N + 1].hours, OverlayOf(N), OceanicOf(N))

\* The response for the full oceanic day: the rows 0..4 hold 15, 10, 180,
\* 100 and 15 at slot 0, and totalHeight is 1.5 m, 1.0 s, 180 "S", 100, 1.5.
C26_Witness ==
    /\ Built
    /\ call.oceanic_data = File(Date20260301, OneDay(0, OceanFull), NoMap)
    /\ CellInt(OceanicOf(0), 0, 0) = 15
    /\ CellInt(OceanicOf(0), 1, 0) = 10
    /\ CellInt(OceanicOf(0), 2, 0) = 180
    /\ CellInt(OceanicOf(0), 3, 0) = 100
    /\ CellInt(OceanicOf(0), 4, 0) = 15
    /\ BuiltDays[1].hours[1].waves.totalHeight
           = [value |-> Tenths(15), period |-> Tenths(10), direction |-> "S",
              directionDegree |-> 180, power |-> Tenths(15), energy |-> 100]

\* bool(orientacao) is False: None, 0 or the empty string.
Falsy(orientacao) ==
    \/ orientacao = PyNone
    \/ orientacao = PyInt(0)
    \/ orientacao = PyStr(<<>>)

\* The wind types of the hours of the days.
CoastTypes(days) ==
    {days[d].hours[h].winds.coast.type :
        d \in {n \in 1..Len(days) : days[n].hours # <<>>}, h \in 1..8}

\* C30: build_forecast takes every falsy orientacao (None, 0, the empty
\* string) for an unknown orientation: the orientation of the response is
\* 0 and every hour's winds.coast.type is OCEANIC, in SURF mode with
\* atmospheric data too; a type of the classifier is there only in SURF
\* mode with an orientation that is not 0.
C30_FalsyOrientationIsUnknown ==
    Built =>
        /\ Falsy(call.beach_data.orientacao) =>
               /\ ret.val.val.orientation = 0
               /\ CoastTypes(BuiltDays) \subseteq {"OCEANIC"}
        /\ CoastTypes(BuiltDays) \subseteq {"OCEANIC"}
               \/ (call.forecast_type = "SURF" /\ ret.val.val.orientation # 0)

\* The response in SURF mode for a row with orientacao 0, the full oceanic
\* day and the atmospheric file of every day: the wind of 00:00 is there,
\* its type is OCEANIC.
C30_Witness ==
    /\ Built
    /\ call.forecast_type = "SURF"
    /\ call.beach_data.orientacao = PyInt(0)
    /\ call.atmospheric_data = File(NoMap, AllDays(AtmosFull), NoMap)
    /\ call.oceanic_data = File(Date20260301, OneDay(0, OceanFull), NoMap)
    /\ ret.val.val.orientation = 0
    /\ BuiltDays[1].hours[1].winds.coast.wind # 0
    /\ BuiltDays[1].hours[1].winds.coast.type = "OCEANIC"

(***************************************************************************)
(* Properties of the tide decoder, under SpecTides.                        *)
(***************************************************************************)
\* The i-th entry (from 0) the claim expects for the characters s.
TideEntry(s, i) ==
    [time |-> <<s[6 * i + 1], s[6 * i + 2], ":", s[6 * i + 3], s[6 * i + 4]>>,
     height |-> <<s[6 * i + 5], ".", s[6 * i + 6]>>]

C15_DirectionIsPeriodic ==
    (ret.fn = "get_direction" /\ call.degrees_value.t = "int") =>
        ret.val = get_direction(PyInt(call.degrees_value.i % 360))

\* 45 degrees less MaxTurns full turns, and the label NE of 45 degrees.
C15_Witness ==
    /\ ret.fn = "get_direction"
    /\ call.degrees_value = PyInt(45 - 360 * MaxTurns)
    /\ ret.val = Ret("NE")

\* None, and the texts that are no finite number.
NotANumber(x) ==
    \/ x.t = "None"
    \/ x.t = "str" /\ ~IsIntText(x.s) /\ ~IsDecimalText(x.s)

\* C16: get_direction never fails: for None, the empty string, a text that
\* is no number and a text that parses to NaN or infinity it returns "N".
C16_DirectionNeverFails ==
    (ret.fn = "get_direction" /\ NotANumber(call.degrees_value)) =>
        ret.val = Ret("N")

\* The table of the 16 labels, SSO at the indices 9 and 10.
CompassTable ==
    <<"N", "NNE", "NE", "ENE", "E", "ESE", "SE", "SSE",
      "S", "SSO", "SSO", "OSO", "O", "ONO", "NO", "NNO">>

\* floor(((d / 11.25) mod 32 + 1) / 2) for an integer d, in 90ths.
CompassIndex(d) == (((4 * d) % 1440) + 45) \div 90

\* The labels of the bearings the decoder's examples give.
CompassExamples ==
    {<<0, "N">>, <<45, "NE">>, <<90, "E">>, <<180, "S">>, <<225, "SSO">>,
     <<270, "O">>, <<315, "NO">>, <<-90, "O">>, <<450, "E">>}

\* C17: for every integer d in 0..360, get_direction(d) is the entry of
\* the table at the index floor(((d / 11.25) mod 32 + 1) / 2) wrapped by
\* 16; 0 is N, 45 NE, 90 E, 180 S, 225 SSO, 270 O, 315 NO, -90 O and 450 E;
\* the label SO is never returned.
C17_DirectionIsTableEntry ==
    (ret.fn = "get_direction" /\ call.degrees_value.t = "int") =>
        /\ ret.val.exc = ""
        /\ ret.val.val # "SO"
        /\ call.degrees_value.i \in 0..360 =>
               ret.val.val
                   = CompassTable[(CompassIndex(call.degrees_value.i) % 16) + 1]
        /\ \A e \in CompassExamples :
               call.degrees_value.i = e[1] => ret.val.val = e[2]

\* 225 degrees, whose label is the second SSO of the table.
C17_Witness ==
    /\ ret.fn = "get_direction"
    /\ call.degrees_value = PyInt(225)
    /\ CompassIndex(225) = 10
    /\ ret.val = Ret("SSO")

(***************************************************************************)
(* Properties of the aggregators, under SpecMax.                           *)
(***************************************************************************)
\* The row an aggregator call reads: that of the key for get_max_value (-1
\* for a key that is none of OCEAN_VARIABLES), row 0 for get_max_wind.
TargetRow ==
    IF call.fn = "get_max_wind" THEN 0
    ELSE IF call.var_key = "wave_height" THEN 0
    ELSE IF call.var_key = "total_energy" THEN 3
    ELSE IF call.var_key = "total_power" THEN 4
    ELSE -1

\* The integers of the cells of a row of a matrix that are integer texts.
RowIntegers(matrix, row) ==
    IF row < 0 \/ row + 1 > Len(matrix) THEN {}
    ELSE {IntOfText(matrix[row + 1][k]) :
              k \in {j \in 1..Len(matrix[row + 1]) :
                        IsIntText(matrix[row + 1][j])}}

\* The integers of the target row over the days v0..v14 of the data.
TargetIntegers ==
    UNION {RowIntegers(parse_day_variables(day_string(call.data, "v", N)),
                       TargetRow) : N \in Days}

Maximum(S) == CHOOSE m \in S : \A n \in S : n <= m

\* The call has returned n, as it is or divided by 10.
Returned(n) ==
    IF call.should_divide THEN ret.val = Scaled(n) ELSE ret.val = n

====
